---- MODULE Spec2Model ----
(***************************************************************************)
(* Anchor: the auth/session core (rotating refresh tokens, fingerprint-    *)
(* bound access tokens, step-up gate) and the server snapshot store        *)
(* (repository lock, save_snapshot, init_repo).                            *)
(*                                                                         *)
(* Idealisations, used throughout:                                         *)
(*  - sha256 is collision free.  A digest is represented by the value it   *)
(*    was computed from (a refresh token's hash by the token, a blob id by *)
(*    the file content, a tree id by the entries map, a snapshot id by the *)
(*    pair of tree id and parent it is hashed from).                       *)
(*  - secrets.token_urlsafe never repeats a value: tokens are numbered in  *)
(*    the order they are minted.                                           *)
(*  - time is counted in whole seconds.                                    *)
(***************************************************************************)
EXTENDS Integers, Sequences, FiniteSets, TLC

\* ------------------------------------------------------------------------
\* Bounds of the model
\* ------------------------------------------------------------------------
MaxTokens == 3
MaxTicks == 1
MaxWrites == 2
MaxKeys == 1
NumProcs == 2
MaxSaves == 2
MaxCommits == 3

\* ------------------------------------------------------------------------
\* Values
\* ------------------------------------------------------------------------
Usernames == {"admin", "guest"}
NoFingerprint == ""
Fingerprints == {NoFingerprint, "F1", "F2"}
NoToken == 0
TokenIds == 1..MaxTokens

DaySeconds == 24 * 60 * 60
DefaultExpiresDays == 7
StepUpWindow == 300
AccessTokenExpireMinutes == 5
RefreshTtl == DefaultExpiresDays * DaySeconds
TickSteps == {RefreshTtl, RefreshTtl + 1}

\* requests, as far as the device fingerprint reads them
UserAgents == {"ua1", "ua2"}
ClientIps == {<<10, 0, 0, 1>>, <<10, 0, 0, 2>>, <<10, 0, 1, 1>>}
AcceptLanguage == "en"
AcceptEncoding == "gzip"
Requests == [ua : UserAgents, ip : ClientIps]
NoRequest == [ua |-> "", ip |-> <<>>]
NoTime == -1

RepoNames == {"r1", "r2"}
NoFile == <<"nofile">>
EmptyRef == <<>>
NoneValue == <<"None">>
Procs == 1..NumProcs
NoProc == 0
Messages == {"first"}
\* working directories: relative path -> bytes of the file
WorkDirs ==
    {[p \in {"hello.txt"} |-> "hi"],
     [p \in {"hello.txt"} |-> "ho"],
     [p \in {"hello.txt", "d/world.txt"} |-> "hi"]}

VARIABLES
    now,        \* datetime.utcnow(), in seconds
    ticks,      \* number of clock advances so far
    tokens,     \* RefreshTokenManager.tokens: token hash -> record
    nextTok,    \* the next value secrets.token_urlsafe returns
    family,     \* history: minted token -> first token of its rotation chain
    consumed,   \* history: tokens on which validate_and_rotate has succeeded
    last,       \* the last call on the token manager and what it returned
    held,       \* the claims of the access token the client holds (the last one signed)
    writes,     \* number of requests so far that changed stored state
    users,      \* <SVCS_ROOT>/users: name -> the files of the user directory
    resp,       \* the last request handled and the response to it
    challenges, \* CHALLENGES: the users with a pending SSH-login challenge
    authz,      \* the last authorization check: its arguments and its result
    rot,        \* thread -> where it stands in validate_and_rotate, and its locals
    repoDir,    \* the repository directories that exist under SVCS_ROOT
    meta,       \* the repositories that have a meta.json
    favorite,   \* the repositories whose meta.json holds is_favorite = true
    refs,       \* repository -> content of refs/main, or NoFile
    blobs,      \* repository -> objects/blobs: blob id -> bytes
    trees,      \* repository -> objects/trees: tree id -> tree
    snapshots,  \* repository -> objects/snapshots: snapshot id -> snapshot
    lockHolder, \* repository -> the call that holds the flock on repo.lock
    pc,         \* call -> where it stands in save_snapshot
    frame,      \* call -> the arguments and locals of save_snapshot
    saves,      \* number of save_snapshot calls started so far
    log,        \* history: repository -> the ref updates, in order
    cExists,    \* the client's working copy has a .anchor directory
    cHead,      \* .anchor/HEAD: the branch it names
    cDetached,  \* .anchor/HEAD: the snapshot id it holds when it names no branch
    cRefs,      \* .anchor/refs/heads: branch -> commit id
    cIndex,     \* .anchor/index: path -> blob id
    cWork,      \* the working files: path -> bytes
    cBlobs,     \* .anchor/objects/blobs: blob id -> bytes
    cTrees,     \* .anchor/objects/trees: tree id -> tree
    cSnapshots, \* .anchor/objects/snapshots: snapshot id -> snapshot
    cRemote,    \* .anchor/config remote (a repository name) and refs/remotes/origin/main
    cCommits,   \* number of commits made so far
    cLog,       \* history: the commits made, in order
    cLast,      \* the last anchor command run through its handler, and its outcome
    attempt     \* history: the users whose password step was answered 2fa_required
                \* and whose login has not been completed since

clockVars == <<now, ticks>>
tokenVars == <<tokens, nextTok, family, consumed, last>>
accessVars == <<held, writes, users, resp>>
repoVars == <<repoDir, meta, favorite, refs>>

objectVars == <<blobs, trees, snapshots>>
callVars == <<lockHolder, pc, frame, saves, log>>

clientRefVars == <<cExists, cHead, cDetached, cRefs, cIndex, cWork, cRemote>>
clientObjectVars == <<cBlobs, cTrees, cSnapshots>>
clientVars == <<clientRefVars, clientObjectVars, cCommits, cLog, cLast>>

\* the threads that run concurrently with the calls, and the login attempts
raceVars == <<rot, attempt>>

vars == <<clockVars, tokenVars, accessVars, repoVars, objectVars, callVars, clientVars, challenges, authz, raceVars>>

outsideTokens == <<accessVars, repoVars, objectVars, callVars, clientVars, challenges, authz, raceVars>>
outsideAccess == <<tokenVars, objectVars, callVars, clientVars, challenges, authz, raceVars>>
outsideStore == <<clockVars, tokenVars, accessVars, clientVars, challenges, authz, raceVars>>
outsideClient == <<clockVars, tokenVars, accessVars, callVars, challenges, authz, raceVars>>

\* ------------------------------------------------------------------------
\* RefreshTokenManager (token_manager.py)
\* ------------------------------------------------------------------------
Call(op, token, fp, user, outcome, new) ==
    [op |-> op, token |-> token, fp |-> fp, user |-> user,
     outcome |-> outcome, new |-> new]

Remove(toks, h) == [k \in DOMAIN toks \ {h} |-> toks[k]]

Put(toks, h, rec) == [k \in DOMAIN toks \cup {h} |-> IF k = h THEN rec ELSE toks[k]]

\* the record generate_refresh_token stores for a new token
NewRecord(username, fingerprint, t) ==
    [username |-> username,
     fingerprint |-> fingerprint,
     created_at |-> t,
     expires_at |-> t + RefreshTtl,
     used |-> FALSE,
     rotated_to |-> NoToken]

RECURSIVE InvalidateTokenFamily(_, _)
RECURSIVE InvalidateEach(_, _)

\* the loop of _invalidate_token_family over the records that rotated to h
InvalidateEach(toks, S) ==
    IF S = {} THEN toks
    ELSE LET th == CHOOSE x \in S : TRUE
         IN InvalidateEach(InvalidateTokenFamily(toks, th), S \ {th})

InvalidateOnlyToken(toks, h) == Remove(toks, h)

InvalidateTokenFamily(toks, h) ==
    LET t1 == Remove(toks, h)
        rotatedHere == {th \in DOMAIN t1 : t1[th].rotated_to = h}
    IN InvalidateEach(t1, rotatedHere)

OutcomeIgnoringUsed(toks, t, fp, t_now) ==
    IF t \notin DOMAIN toks THEN "miss"
    ELSE IF toks[t].expires_at < t_now THEN "expired"
    ELSE IF fp # NoFingerprint /\ toks[t].fingerprint # NoFingerprint
            /\ toks[t].fingerprint # fp THEN "fingerprint"
    ELSE "rotated"

\* the return path validate_and_rotate takes
ValidateOutcome(toks, t, fp, t_now) ==
    IF t \notin DOMAIN toks THEN "miss"
    ELSE IF toks[t].used THEN "replay"
    ELSE IF toks[t].expires_at < t_now THEN "expired"
    ELSE IF fp # NoFingerprint /\ toks[t].fingerprint # NoFingerprint
            /\ toks[t].fingerprint # fp THEN "fingerprint"
    ELSE "rotated"

GenerateRefreshToken(u, fp) ==
    /\ nextTok <= MaxTokens
    /\ tokens' = Put(tokens, nextTok, NewRecord(u, fp, now))
    /\ nextTok' = nextTok + 1
    /\ family' = Put(family, nextTok, nextTok)
    /\ last' = Call("generate", NoToken, fp, u, "issued", nextTok)
    /\ UNCHANGED <<now, ticks, consumed>>
    /\ UNCHANGED outsideTokens

\* a marking that leaves the old record unused
MarkUsedNot(toks, t) == toks

\* token_data['used'] = True
MarkUsed(toks, t) == [toks EXCEPT ![t].used = TRUE]

\* a linking that also gives the old record the expiry of the new one
LinkRotatedExtending(toks, t, new_token_hash, t_now) ==
    [toks EXCEPT ![t].rotated_to = new_token_hash, ![t].expires_at = t_now + RefreshTtl]

\* token_data['rotated_to'] = new_token_hash
LinkRotated(toks, t, new_token_hash, t_now) ==
    [toks EXCEPT ![t].rotated_to = new_token_hash]

\* validate_and_rotate: what it does to the store, by the outcome of the checks
RotationStep(t, fp) ==
    LET outcome == ValidateOutcome(tokens, t, fp, now) IN
    /\ outcome = "rotated" => nextTok <= MaxTokens
    /\ CASE outcome = "miss" ->
              /\ last' = Call("validate", t, NoFingerprint, "", outcome, NoToken)
              /\ UNCHANGED <<tokens, nextTok, family, consumed>>
         [] outcome \in {"replay", "fingerprint"} ->
              /\ tokens' = InvalidateTokenFamily(tokens, t)
              /\ last' = Call("validate", t, fp, "", outcome, NoToken)
              /\ UNCHANGED <<nextTok, family, consumed>>
         [] outcome = "expired" ->
              /\ tokens' = Remove(tokens, t)
              /\ last' = Call("validate", t, fp, "", outcome, NoToken)
              /\ UNCHANGED <<nextTok, family, consumed>>
         [] outcome = "rotated" ->
              LET newFp == IF fp # NoFingerprint THEN fp ELSE tokens[t].fingerprint
                  marked == LinkRotated(MarkUsed(tokens, t), t, nextTok, now)
              IN /\ tokens' = Put(marked, nextTok,
                                  NewRecord(tokens[t].username, newFp, now))
                 /\ nextTok' = nextTok + 1
                 /\ family' = Put(family, nextTok, family[t])
                 /\ consumed' = consumed \cup {t}
                 /\ last' = Call("validate", t, fp, tokens[t].username, outcome, nextTok)

ValidateAndRotate(t, fp) ==
    /\ RotationStep(t, fp)
    /\ UNCHANGED <<now, ticks>>
    /\ UNCHANGED outsideTokens

RevokeToken(t) ==
    /\ IF t \in DOMAIN tokens
       THEN /\ tokens' = InvalidateTokenFamily(tokens, t)
            /\ last' = Call("revoke", t, NoFingerprint, "", "revoked", NoToken)
       ELSE /\ tokens' = tokens
            /\ last' = Call("revoke", NoToken, NoFingerprint, "", "miss", NoToken)
    /\ UNCHANGED <<now, ticks, nextTok, family, consumed>>
    /\ UNCHANGED outsideTokens

RevokeAllUserTokens(u) ==
    /\ tokens' = [k \in {h \in DOMAIN tokens : tokens[h].username # u} |-> tokens[k]]
    /\ last' = Call("revoke_all", NoToken, NoFingerprint, u, "revoked", NoToken)
    /\ UNCHANGED <<now, ticks, nextTok, family, consumed>>
    /\ UNCHANGED outsideTokens

\* a restart of the server: _load_tokens reads the file and _cleanup_expired
\* drops the expired records
LoadTokens ==
    /\ tokens' = [k \in {h \in DOMAIN tokens : ~(tokens[h].expires_at < now)} |-> tokens[k]]
    /\ last' = Call("load", NoToken, NoFingerprint, "", "loaded", NoToken)
    /\ UNCHANGED <<now, ticks, nextTok, family, consumed>>
    /\ UNCHANGED outsideTokens

\* time passes; with no record stored the clock has nothing to measure, and
\* the advance is left out
Tick(d) ==
    /\ ticks < MaxTicks
    /\ tokens # <<>>
    /\ now' = now + d
    /\ ticks' = ticks + 1
    /\ last' = Call("tick", NoToken, NoFingerprint, "", "tick", NoToken)
    /\ UNCHANGED <<tokens, nextTok, family, consumed>>
    /\ UNCHANGED outsideTokens


\* ------------------------------------------------------------------------
\* Repositories on disk: init_repo (svcs.py)
\* ------------------------------------------------------------------------
RepoInit ==
    /\ repoDir = {}
    /\ meta = {}
    /\ favorite = {}
    /\ refs = [r \in RepoNames |-> NoFile]

\* os.makedirs(repo_path, exist_ok=True) and the write of meta.json
InitRepoMeta(name) ==
    /\ repoDir' = repoDir \cup {name}
    /\ meta' = meta \cup {name}
    /\ favorite' = favorite \ {name}

\* os.makedirs(refs, exist_ok=True) and the write of an empty refs/main
InitRepoRefs(name) ==
    refs' = [refs EXCEPT ![name] = EmptyRef]

\* ------------------------------------------------------------------------
\* Device fingerprint (fingerprint.py)
\* ------------------------------------------------------------------------
Min(a, b) == IF a < b THEN a ELSE b

PartialIp(ip) == SubSeq(ip, 1, Min(3, Len(ip)))

\* the component list that is joined and hashed
GetDeviceFingerprint(req) ==
    <<req.ua>> \o (IF req.ip # <<>> THEN <<PartialIp(req.ip)>> ELSE <<>>)
               \o <<AcceptLanguage, AcceptEncoding>>

\* ------------------------------------------------------------------------
\* Authorization (authorization.py)
\* ------------------------------------------------------------------------
AdminUsername == "admin"

\* a lookup that gives every other user the role user
GetUserRoleDefaultUser(username) == IF username = AdminUsername THEN "admin" ELSE "user"

GetUserRole(username) == IF username = AdminUsername THEN "admin" ELSE "guest"

RolePermissions(role) ==
    CASE role = "admin" ->
           {"admin:*", "read:repo", "write:repo", "delete:repo", "create:repo",
            "admin:repo", "read:profile", "write:profile", "manage:keys",
            "export:keys", "create:snapshot", "read:snapshot", "restore:snapshot"}
      [] role = "user" ->
           {"read:repo", "write:repo", "create:repo", "read:profile",
            "write:profile", "manage:keys", "create:snapshot", "read:snapshot"}
      [] OTHER -> {"read:repo", "read:profile"}

HasPermission(user, permission) ==
    /\ user.sub # ""
    /\ LET permissions == RolePermissions(GetUserRole(user.sub))
       IN "admin:*" \in permissions \/ permission \in permissions

\* ------------------------------------------------------------------------
\* Access tokens and the step-up gate (dependencies.py)
\* ------------------------------------------------------------------------
NoPayload == [sub |-> "", exp |-> 0, fpt |-> <<>>, step_up |-> FALSE, step_up_at |-> NoTime]
NoBearer == [payload |-> NoPayload, sig |-> "none"]
NoValue == ""
NoData == [username |-> NoValue, new_password |-> NoValue, bio |-> NoValue, name |-> NoValue, key |-> NoValue,
           password |-> NoValue, code |-> NoValue, status |-> NoValue,
           access_token |-> NoPayload, refresh_token |-> NoToken]

\* claims that carry a step-up whatever the caller passes
AccessPayloadElevated(sub, fingerprint, step_up, t) ==
    [sub |-> sub,
     exp |-> t + AccessTokenExpireMinutes * 60,
     fpt |-> fingerprint,
     step_up |-> TRUE,
     step_up_at |-> t]

\* the claims create_access_token signs; step_up FALSE stands for a token
\* without the step_up claim, step_up_at NoTime for one without step_up_at
AccessPayload(sub, fingerprint, step_up, t) ==
    [sub |-> sub,
     exp |-> t + AccessTokenExpireMinutes * 60,
     fpt |-> fingerprint,
     step_up |-> step_up,
     step_up_at |-> IF step_up THEN t ELSE NoTime]

Result(ok, status, detail) == [ok |-> ok, status |-> status, detail |-> detail]

VerifyTokenIgnoringFingerprint(tok, req, t) ==
    IF tok.sig # "valid" THEN Result(FALSE, 401, "Invalid token")
    ELSE IF tok.payload.exp <= t THEN Result(FALSE, 401, "Token expired")
    ELSE Result(TRUE, 200, "")

\* jwt.decode checks the signature, then exp; then the fingerprint is compared
VerifyToken(tok, req, t) ==
    IF tok.sig # "valid" THEN Result(FALSE, 401, "Invalid token")
    ELSE IF tok.payload.exp <= t THEN Result(FALSE, 401, "Token expired")
    ELSE IF req # NoRequest /\ tok.payload.fpt # GetDeviceFingerprint(req)
         THEN Result(FALSE, 401, "Device fingerprint mismatch")
    ELSE Result(TRUE, 200, "")

RequireStepUpNoFreshness(user, t) ==
    IF ~user.step_up THEN Result(FALSE, 403, "Step-up authentication required")
    ELSE Result(TRUE, 200, "")

RequireStepUp(user, t) ==
    IF ~user.step_up
    THEN Result(FALSE, 403, "Step-up authentication required")
    ELSE IF user.step_up_at = NoTime \/ user.step_up_at = 0
            \/ (t - user.step_up_at) > StepUpWindow
    THEN Result(FALSE, 403, "Step-up authentication expired")
    ELSE Result(TRUE, 200, "")

\* resource = None; a resource dict has the keys it was given, "" for a
\* missing or empty one
NoResource == [given |-> FALSE, type |-> "", id |-> ""]

\* an ownership check that every user with a sub passes
CheckResourceOwnershipAnyone(user, resource_type, resource_id) ==
    user.sub # ""

CheckResourceOwnership(user, resource_type, resource_id) ==
    user.sub # "" /\ GetUserRole(user.sub) = "admin"

Can(user, action, resource) ==
    IF ~HasPermission(user, action) THEN FALSE
    ELSE IF ~resource.given THEN TRUE
    ELSE IF resource.type # "" /\ resource.id # ""
    THEN CheckResourceOwnership(user, resource.type, resource.id)
    ELSE TRUE

\* require_permission(user, permission, resource)
RequirePermissionOn(user, permission, resource) ==
    IF Can(user, permission, resource) THEN Result(TRUE, 200, "")
    ELSE Result(FALSE, 403, "Permission denied")

\* require_permission(user, permission)
RequirePermission(user, permission) == RequirePermissionOn(user, permission, NoResource)

\* the bearer tokens a client can present: the signed ones, and copies whose
\* claims were edited to carry a step-up, which no longer match the signature
Bearers ==
    IF held = NoPayload THEN {}
    ELSE {[payload |-> held, sig |-> "valid"],
          [payload |-> [held EXCEPT !.step_up = TRUE, !.step_up_at = now],
           sig |-> "invalid"]}

Response(op, res, tok, req, data) ==
    [op |-> op, status |-> res.status, detail |-> res.detail,
     tok |-> tok, req |-> req, data |-> data, at |-> now]

\* no authorization check has been made
NoCheck == [op |-> "none", user |-> [sub |-> ""], permission |-> "",
            resource |-> NoResource, ok |-> FALSE, status |-> 0]

\* no thread is inside validate_and_rotate
NoRotation == [pc |-> "idle", token |-> NoToken, fp |-> NoFingerprint, user |-> "",
               new |-> NoToken, ok |-> FALSE]

RaceInit == rot = [p \in Procs |-> NoRotation] /\ attempt = {}

AccessInit ==
    /\ held = NoPayload
    /\ writes = 0
    /\ users = <<>>
    /\ resp = Response("init", Result(TRUE, 200, ""), NoBearer, NoRequest, NoData)
    /\ challenges = {}
    /\ authz = NoCheck
    /\ RaceInit

\* create_access_token as its callers use it: the login handlers and refresh
\* pass step_up = False, step_up passes True and only for the admin
CreateAccessToken(sub, req, step_up) ==
    LET p == AccessPayload(sub, GetDeviceFingerprint(req), step_up, now) IN
    /\ step_up => sub = AdminUsername
    /\ held' = p
    /\ resp' = Response("create_access_token", Result(TRUE, 200, ""),
                        [payload |-> p, sig |-> "valid"], req, NoData)
    /\ UNCHANGED <<writes, users, clockVars, repoVars, outsideAccess>>

\* verify_token(token, request); verify_token(token) when req = NoRequest
VerifyTokenCall(tok, req) ==
    /\ resp' = Response("verify_token", VerifyToken(tok, req, now), tok, req, NoData)
    /\ UNCHANGED <<held, writes, users, clockVars, repoVars, outsideAccess>>

GetCurrentUserOnly(tok, req) == VerifyToken(tok, req, now)

\* get_current_user followed by require_step_up, as Depends(require_step_up)
StepUpDependency(tok, req) ==
    LET v == VerifyToken(tok, req, now) IN
    IF ~v.ok THEN v ELSE RequireStepUp(tok.payload, now)

\* POST /repos/
CreateRepo(tok, req, name) ==
    LET gate == StepUpDependency(tok, req)
        perm == RequirePermission(tok.payload, "create:repo")
        res == IF ~gate.ok THEN gate ELSE perm
        data == [NoData EXCEPT !.name = name]
    IN /\ resp' = Response("create_repo", res, tok, req, data)
       /\ res.ok => writes < MaxWrites
       /\ IF res.ok
          THEN InitRepoMeta(name) /\ InitRepoRefs(name)
          ELSE UNCHANGED repoVars
       /\ writes' = IF res.ok THEN writes + 1 ELSE writes
       /\ UNCHANGED <<held, users, clockVars, outsideAccess>>


\* ------------------------------------------------------------------------
\* The token manager as a state machine
\* ------------------------------------------------------------------------
\* the clock starts at a positive time: a timestamp of 0 is treated as absent
ObjectInit ==
    /\ blobs = [r \in RepoNames |-> <<>>]
    /\ trees = [r \in RepoNames |-> <<>>]
    /\ snapshots = [r \in RepoNames |-> <<>>]

NoFrame ==
    [repo |-> "", message |-> "", work_dir |-> <<>>, parent |-> EmptyRef,
     tree |-> <<>>, tree_id |-> <<>>, snapshot_id |-> <<>>, ret |-> "none"]

CallInit ==
    /\ lockHolder = [r \in RepoNames |-> NoProc]
    /\ pc = [p \in Procs |-> "idle"]
    /\ frame = [p \in Procs |-> NoFrame]
    /\ saves = 0
    /\ log = [r \in RepoNames |-> <<>>]

\* the client's directory before `anchor init` or `anchor clone`
NoRemote == ""
MainBranch == "main"
NoHead == ""

\* no command has been recorded
NoCommand == [op |-> "none", out |-> ""]

ClientStoreInit ==
    /\ cExists = FALSE
    /\ cHead = NoHead
    /\ cDetached = NoneValue
    /\ cRefs = <<>>
    /\ cIndex = <<>>
    /\ cWork = <<>>
    /\ cBlobs = <<>>
    /\ cTrees = <<>>
    /\ cSnapshots = <<>>
    /\ cRemote = [remote |-> NoRemote, main |-> NoFile]
    /\ cCommits = 0
    /\ cLog = <<>>
    /\ cLast = NoCommand

StartTime == DaySeconds

ClockInit ==
    /\ now = StartTime
    /\ ticks = 0

TokenInit ==
    /\ tokens = <<>>
    /\ nextTok = 1
    /\ family = <<>>
    /\ consumed = {}
    /\ last = Call("init", NoToken, NoFingerprint, "", "init", NoToken)

Init ==
    /\ ClockInit /\ TokenInit /\ AccessInit /\ RepoInit /\ ObjectInit /\ CallInit
    /\ ClientStoreInit

\* token_urlsafe(64) cannot be guessed: a caller presents tokens it was given
Issued == 1..(nextTok - 1)

Next ==
    \/ \E u \in Usernames, fp \in Fingerprints : GenerateRefreshToken(u, fp)
    \/ \E t \in Issued, fp \in Fingerprints : ValidateAndRotate(t, fp)
    \/ \E t \in Issued : RevokeToken(t)
    \/ \E u \in Usernames : RevokeAllUserTokens(u)
    \/ LoadTokens
    \/ \E d \in TickSteps : Tick(d)

Spec == Init /\ [][Next]_vars

\* ------------------------------------------------------------------------
\* Refresh-token claims
\* ------------------------------------------------------------------------
FingerprintAccepted(stored, presented) ==
    presented = NoFingerprint \/ stored = NoFingerprint \/ stored = presented

\* C1: refresh tokens are single-use.  A validate_and_rotate on a stored,
\* never rotated, unexpired token with a matching or empty fingerprint
\* succeeds: it returns a new token, stored unused, and retires the old one.
\* Once a validate_and_rotate of a token has succeeded, every later
\* validate_and_rotate of that token fails and mints no token.
SingleUse ==
    [][last'.op = "validate" =>
        LET t == last'.token IN
        /\ t \in consumed =>
              /\ last'.outcome # "rotated"
              /\ last'.new = NoToken
              /\ nextTok' = nextTok
              /\ DOMAIN tokens' \subseteq DOMAIN tokens
        /\ ( /\ t \in DOMAIN tokens
             /\ t \notin consumed
             /\ ~(tokens[t].expires_at < now)
             /\ FingerprintAccepted(tokens[t].fingerprint, last'.fp) ) =>
              /\ last'.outcome = "rotated"
              /\ last'.new = nextTok
              /\ last'.new \in DOMAIN tokens' \ DOMAIN tokens
              /\ ~tokens'[last'.new].used
              /\ tokens'[t].used
              /\ tokens'[t].rotated_to = last'.new
    ]_vars

\* a token that was rotated once is presented again and refused
SingleUseWitness ==
    /\ last.op = "validate"
    /\ last.token \in consumed
    /\ last.outcome = "replay"
    /\ last.new = NoToken

\* C2: replaying an already rotated token fails and leaves no record of its
\* rotation family in the store, so no later token of the family validates.
ReplayInvalidatesFamily ==
    (last.op = "validate" /\ last.outcome = "replay") =>
        /\ last.new = NoToken
        /\ \A k \in DOMAIN tokens : family[k] # family[last.token]

\* C3: a validate_and_rotate of an unused, unexpired token under a
\* fingerprint that differs from the stored one (both non-empty) fails, mints
\* nothing, removes every record of the token's family and leaves the records
\* of the other families as they were.
FingerprintMismatchInvalidatesFamily ==
    [][last'.op = "validate" =>
        LET t == last'.token IN
        ( /\ t \in DOMAIN tokens
          /\ ~tokens[t].used
          /\ ~(tokens[t].expires_at < now)
          /\ last'.fp # NoFingerprint
          /\ tokens[t].fingerprint # NoFingerprint
          /\ tokens[t].fingerprint # last'.fp ) =>
              /\ last'.outcome = "fingerprint"
              /\ last'.new = NoToken
              /\ nextTok' = nextTok
              /\ \A k \in DOMAIN tokens' : family[k] # family[t]
              /\ \A k \in DOMAIN tokens :
                    family[k] # family[t] => k \in DOMAIN tokens' /\ tokens'[k] = tokens[k]
    ]_vars

\* the refused token had been obtained by rotation (its family had an older
\* record) and another family is still stored
FingerprintMismatchWitness ==
    /\ last.op = "validate"
    /\ last.outcome = "fingerprint"
    /\ family[last.token] # last.token
    /\ \A k \in DOMAIN tokens : family[k] # family[last.token]
    /\ tokens # <<>>

\* ------------------------------------------------------------------------
\* User directories (svcs.py) and the endpoints that change them
\* ------------------------------------------------------------------------
KeyStrings == {"k1"}
NewUsernames == {"admin2"}
NewPasswords == {"pw2"}
Bios == {"bio"}

\* a file is <<>> when it does not exist and <<content>> when it does
EmptyDir == [profile |-> <<>>, keys |-> <<>>, twofa |-> <<>>, pw |-> <<>>]

Makedirs(us, name) == IF name \in DOMAIN us THEN us ELSE Put(us, name, EmptyDir)

KeyId(key) == <<"sha256[:8]", key>>

GetPasswordHash(password) == <<"bcrypt", password>>

GetUserKeys(us, username) ==
    IF username \in DOMAIN us /\ us[username].keys # <<>>
    THEN us[username].keys[1] ELSE <<>>

AddUserKey(us, username, key) ==
    LET made == Makedirs(us, username)
        keys == Append(GetUserKeys(us, username), [id |-> KeyId(key), key |-> key])
    IN [made EXCEPT ![username].keys = <<keys>>]

DeleteUserKey(us, username, key_id) ==
    IF username \notin DOMAIN us \/ us[username].keys = <<>> THEN us
    ELSE [us EXCEPT ![username].keys =
              <<SelectSeq(us[username].keys[1], LAMBDA k : k.id # key_id)>>]

GetUser2fa(us, username) ==
    IF username \in DOMAIN us /\ us[username].twofa # <<>>
    THEN us[username].twofa[1] ELSE [enabled |-> FALSE, secret |-> ""]

UpdateUser2fa(us, username, enabled, secret) ==
    [Makedirs(us, username) EXCEPT
        ![username].twofa = <<[enabled |-> enabled, secret |-> secret]>>]

UpdateUserPassword(us, username, password_hash) ==
    [Makedirs(us, username) EXCEPT ![username].pw = <<password_hash>>]

GetUserProfile(us, username) ==
    IF username \in DOMAIN us /\ us[username].profile # <<>>
    THEN us[username].profile[1]
    ELSE [username |-> username, bio |-> "No bio yet."]

UpdateUserProfile(us, username, data) ==
    LET current == GetUserProfile(us, username)
        merged == [username |-> IF data.username # NoValue THEN data.username
                                ELSE current.username,
                   bio |-> IF data.bio # NoValue THEN data.bio ELSE current.bio]
    IN [Makedirs(us, username) EXCEPT ![username].profile = <<merged>>]

\* rename_user raises when the new directory exists
RenameUserRaises(us, old, new) == old \in DOMAIN us /\ new \in DOMAIN us

RenameUser(us, old, new) ==
    IF old \notin DOMAIN us THEN us
    ELSE Put(Remove(us, old), new, us[old])

\* POST /user/keys
CreateKey(tok, req, key) ==
    LET gate == StepUpDependency(tok, req)
        perm == RequirePermission(tok.payload, "manage:keys")
        res == IF ~gate.ok THEN gate ELSE perm
        data == [NoData EXCEPT !.key = key]
    IN /\ res.ok => Len(GetUserKeys(users, tok.payload.sub)) < MaxKeys
       /\ res.ok => writes < MaxWrites
       /\ resp' = Response("create_key", res, tok, req, data)
       /\ users' = IF res.ok THEN AddUserKey(users, tok.payload.sub, key) ELSE users
       /\ writes' = IF res.ok THEN writes + 1 ELSE writes
       /\ UNCHANGED <<held, clockVars, repoVars, outsideAccess>>

\* DELETE /user/keys/{key_id}
RemoveKey(tok, req, key) ==
    LET gate == StepUpDependency(tok, req)
        perm == RequirePermission(tok.payload, "manage:keys")
        res == IF ~gate.ok THEN gate ELSE perm
        data == [NoData EXCEPT !.key = key]
    IN /\ res.ok => writes < MaxWrites
       /\ resp' = Response("remove_key", res, tok, req, data)
       /\ users' = IF res.ok THEN DeleteUserKey(users, tok.payload.sub, KeyId(key))
                   ELSE users
       /\ writes' = IF res.ok THEN writes + 1 ELSE writes
       /\ UNCHANGED <<held, clockVars, repoVars, outsideAccess>>

\* POST /user/2fa/enable; codeOk is the outcome of totp.verify
Enable2fa(tok, req, codeOk) ==
    LET v == VerifyToken(tok, req, now)
        perm == RequirePermission(tok.payload, "write:profile")
        res == IF ~v.ok THEN v
               ELSE IF ~perm.ok THEN perm
               ELSE IF ~codeOk THEN Result(FALSE, 400, "Invalid verification code")
               ELSE Result(TRUE, 200, "")
    IN /\ res.ok => writes < MaxWrites
       /\ resp' = Response("enable_2fa", res, tok, req, NoData)
       /\ users' = IF res.ok THEN UpdateUser2fa(users, tok.payload.sub, TRUE, "secret")
                   ELSE users
       /\ writes' = IF res.ok THEN writes + 1 ELSE writes
       /\ UNCHANGED <<held, clockVars, repoVars, outsideAccess>>

\* POST /user/2fa/disable
Disable2fa(tok, req) ==
    LET gate == StepUpDependency(tok, req)
        perm == RequirePermission(tok.payload, "write:profile")
        res == IF ~gate.ok THEN gate ELSE perm
    IN /\ res.ok => writes < MaxWrites
       /\ resp' = Response("disable_2fa", res, tok, req, NoData)
       /\ users' = IF res.ok THEN UpdateUser2fa(users, tok.payload.sub, FALSE, "")
                   ELSE users
       /\ writes' = IF res.ok THEN writes + 1 ELSE writes
       /\ UNCHANGED <<held, clockVars, repoVars, outsideAccess>>

Sensitive(data) == data.username # NoValue \/ data.new_password # NoValue

\* PATCH /user/profile
UpdateProfile(tok, req, data) ==
    LET v == VerifyToken(tok, req, now)
        user == tok.payload
        perm == RequirePermission(user, "write:profile")
        stepup == RequireStepUp(user, now)
        rename == data.username # NoValue /\ data.username # user.sub
        raises == rename /\ RenameUserRaises(users, user.sub, data.username)
        res == IF ~v.ok THEN v
               ELSE IF ~perm.ok THEN perm
               ELSE IF Sensitive(data) /\ ~stepup.ok THEN stepup
               ELSE IF raises THEN Result(FALSE, 500, "Internal Server Error")
               ELSE Result(TRUE, 200, "")
        sub == IF rename THEN data.username ELSE user.sub
        renamed == IF rename THEN RenameUser(users, user.sub, data.username) ELSE users
        hashed == IF data.new_password # NoValue
                  THEN UpdateUserPassword(renamed, sub, GetPasswordHash(data.new_password))
                  ELSE renamed
    IN /\ res.ok => writes < MaxWrites
       /\ resp' = Response("update_profile", res, tok, req, data)
       /\ users' = IF res.ok THEN UpdateUserProfile(hashed, sub, data) ELSE users
       /\ writes' = IF res.ok THEN writes + 1 ELSE writes
       /\ UNCHANGED <<held, clockVars, repoVars, outsideAccess>>

ProfileData ==
    {[NoData EXCEPT !.username = u, !.new_password = pw] :
        u \in {NoValue} \cup NewUsernames,
        pw \in {NoValue} \cup NewPasswords}
    \cup {[NoData EXCEPT !.bio = b] : b \in Bios}

AccessTickSteps == {StepUpWindow - 1, StepUpWindow, StepUpWindow + 1}

AccessTick(d) ==
    /\ ticks < MaxTicks
    /\ now' = now + d
    /\ ticks' = ticks + 1
    /\ resp' = Response("tick", Result(TRUE, 200, ""), NoBearer, NoRequest, NoData)
    /\ UNCHANGED <<held, writes, users, repoVars, outsideAccess>>

GateRequests == {r \in Requests : r.ua = "ua1" /\ r.ip[4] = 1}
GateLoginRequests == {r \in GateRequests : r.ip[3] = 0}
GateTickSteps == {StepUpWindow}
GateRepoNames == {"r1"}

GateNext ==
    \/ \E u \in Usernames, req \in GateLoginRequests, su \in BOOLEAN : CreateAccessToken(u, req, su)
    \/ \E tok \in Bearers, req \in GateRequests, name \in GateRepoNames : CreateRepo(tok, req, name)
    \/ \E tok \in Bearers, req \in GateRequests, key \in KeyStrings : CreateKey(tok, req, key)
    \/ \E tok \in Bearers, req \in GateRequests, key \in KeyStrings : RemoveKey(tok, req, key)
    \/ \E tok \in Bearers, req \in GateRequests, codeOk \in BOOLEAN : Enable2fa(tok, req, codeOk)
    \/ \E tok \in Bearers, req \in GateRequests : Disable2fa(tok, req)
    \/ \E tok \in Bearers, req \in GateRequests, data \in ProfileData : UpdateProfile(tok, req, data)
    \/ \E d \in GateTickSteps : AccessTick(d)

AccessNext ==
    \/ \E u \in Usernames, req \in Requests, su \in BOOLEAN : CreateAccessToken(u, req, su)
    \/ \E tok \in Bearers, req \in Requests \cup {NoRequest} : VerifyTokenCall(tok, req)
    \/ \E d \in AccessTickSteps : AccessTick(d)

AccessSpec == Init /\ [][AccessNext]_vars

GateSpec == Init /\ [][GateNext]_vars

\* require_step_up applied to the claims of a verified token
RequireStepUpCall ==
    /\ resp.op # "require_step_up"
    /\ resp' = Response("require_step_up", RequireStepUp(held, now),
                        [payload |-> held, sig |-> "valid"], NoRequest, NoData)
    /\ UNCHANGED <<held, writes, users, clockVars, repoVars, outsideAccess>>

\* claims a verified token can carry, with and without the step-up claims
StepUpClaims ==
    {[sub |-> u, exp |-> StartTime + AccessTokenExpireMinutes * 60,
      fpt |-> GetDeviceFingerprint(req), step_up |-> su, step_up_at |-> at] :
        u \in Usernames, req \in GateRequests, su \in BOOLEAN,
        at \in {NoTime, 0, StartTime - 1, StartTime}}

StepUpInit ==
    /\ ClockInit /\ TokenInit /\ RepoInit /\ ObjectInit /\ CallInit
    /\ ClientStoreInit
    /\ held \in StepUpClaims
    /\ writes = 0
    /\ users = <<>>
    /\ resp = Response("init", Result(TRUE, 200, ""), NoBearer, NoRequest, NoData)
    /\ challenges = {}
    /\ authz = NoCheck
    /\ RaceInit

StepUpNext ==
    \/ RequireStepUpCall
    \/ \E d \in AccessTickSteps : AccessTick(d)

StepUpSpec == StepUpInit /\ [][StepUpNext]_vars

\* ------------------------------------------------------------------------
\* Access-token claims
\* ------------------------------------------------------------------------
\* C4: verify_token on a validly signed, unexpired access token minted with
\* fpt = F and called with a request fails with 401 when the request's
\* fingerprint differs from F, and returns the claims when it equals F.
FingerprintBinding ==
    ( /\ resp.op = "verify_token"
      /\ resp.tok.sig = "valid"
      /\ resp.tok.payload.exp > resp.at
      /\ resp.req # NoRequest ) =>
        IF GetDeviceFingerprint(resp.req) # resp.tok.payload.fpt
        THEN resp.status = 401 /\ resp.detail = "Device fingerprint mismatch"
        ELSE resp.status = 200

\* a live token is verified under a request with another fingerprint
FingerprintBindingWitness ==
    /\ resp.op = "verify_token"
    /\ resp.tok.sig = "valid"
    /\ resp.tok.payload.exp > resp.at
    /\ resp.req # NoRequest
    /\ GetDeviceFingerprint(resp.req) # resp.tok.payload.fpt
    /\ resp.status = 401

\* the step-up claims are present and at most StepUpWindow seconds old
FreshStepUp(user, t) ==
    /\ user.step_up
    /\ user.step_up_at # NoTime
    /\ t - user.step_up_at <= StepUpWindow

PrivilegedRequest(r) ==
    \/ r.op \in {"create_repo", "create_key", "remove_key", "disable_2fa"}
    \/ r.op = "update_profile" /\ Sensitive(r.data)

Authenticated(r) ==
    /\ r.tok.sig = "valid"
    /\ r.tok.payload.exp > r.at
    /\ r.tok.payload.fpt = GetDeviceFingerprint(r.req)

\* C6: create-repo, add key, delete key, change username, change password
\* and disable 2FA change the repositories and the user directories only when
\* the request's token carries a fresh step-up; an authenticated request
\* without one is answered 403 and changes nothing.
StepUpGatesMutations ==
    [][PrivilegedRequest(resp') =>
        /\ <<repoVars, users>>' # <<repoVars, users>> =>
              /\ Authenticated(resp')
              /\ FreshStepUp(resp'.tok.payload, now)
              /\ resp'.status = 200
        /\ (Authenticated(resp') /\ ~FreshStepUp(resp'.tok.payload, now)) =>
              /\ resp'.status = 403
              /\ <<repoVars, users>>' = <<repoVars, users>>
    ]_vars

\* after a repository and a key were created, an authenticated privileged
\* request without the step-up bit is refused
StepUpGatesMutationsWitness ==
    /\ PrivilegedRequest(resp)
    /\ Authenticated(resp)
    /\ ~resp.tok.payload.step_up
    /\ resp.status = 403
    /\ repoDir # {}
    /\ users # <<>>

\* ------------------------------------------------------------------------
\* Object store and save_snapshot (svcs.py)
\* ------------------------------------------------------------------------
HashContent(content) == <<"sha256", content>>

\* the entries _build_tree records for a working directory
TreeOf(work_dir) ==
    [entries |-> [path \in DOMAIN work_dir |->
                    [type |-> "blob", id |-> HashContent(work_dir[path])]]]

WriteNoBlobs(store, work_dir) == store

\* the blob files after _build_tree: a blob is written if it does not exist
WriteBlobs(store, work_dir) ==
    LET new == {HashContent(work_dir[path]) : path \in DOMAIN work_dir} IN
    [id \in DOMAIN store \cup new |->
        IF id \in DOMAIN store THEN store[id]
        ELSE CHOOSE d \in {work_dir[path] : path \in DOMAIN work_dir} :
                 HashContent(d) = id]

TreeIdFromPaths(tree) == <<"sha256", DOMAIN tree.entries>>

\* sha256 of json.dumps(tree, sort_keys=True)
TreeId(tree) == <<"sha256", tree>>

\* "s_" + int(sha256(tree_id + parent).hexdigest()[:8], 16)
SnapshotId(tree_id, parent) == <<"s_", tree_id, parent>>

SnapshotRecord(f) ==
    [snapshot_id |-> f.snapshot_id,
     root_tree |-> f.tree_id,
     parent |-> IF f.parent = EmptyRef THEN NoneValue ELSE f.parent,
     message |-> f.message,
     timestamp |-> "2025-12-19T09:00:00Z"]

ReadEmpty(ref) == EmptyRef

\* parent = f.read().strip() if refs/main exists, else ""
ReadParent(ref) == IF ref = NoFile THEN EmptyRef ELSE ref

\* a call of save_snapshot(repo_name, message, work_dir) starts; the workers
\* are interchangeable, the call goes to the first free one
EnterSaveSnapshot(p, repo, message, work_dir) ==
    /\ pc[p] = "idle"
    /\ \A q \in Procs : q < p => pc[q] # "idle"
    /\ saves < MaxSaves
    /\ saves' = saves + 1
    /\ frame' = [frame EXCEPT ![p] = [NoFrame EXCEPT !.repo = repo,
                                       !.message = message, !.work_dir = work_dir]]
    /\ pc' = [pc EXCEPT ![p] = "lock"]

SaveSnapshot(p, repo, message, work_dir) ==
    /\ EnterSaveSnapshot(p, repo, message, work_dir)
    /\ UNCHANGED <<lockHolder, log, repoVars, objectVars, outsideStore>>

LockFree(p) == TRUE

\* flock(LOCK_EX) returns once no other open file holds the lock
LockAvailable(p) == lockHolder[frame[p].repo] = NoProc

\* _lock_repo: os.open raises when the repository directory does not exist
LockRepo(p) ==
    /\ pc[p] = "lock"
    /\ IF frame[p].repo \notin repoDir
       THEN /\ pc' = [pc EXCEPT ![p] = "idle"]
            /\ frame' = [frame EXCEPT ![p].ret = "error"]
            /\ UNCHANGED lockHolder
       ELSE /\ LockAvailable(p)
            /\ lockHolder' = [lockHolder EXCEPT ![frame[p].repo] = p]
            /\ pc' = [pc EXCEPT ![p] = "read"]
            /\ UNCHANGED frame
    /\ UNCHANGED <<saves, log, repoVars, objectVars, outsideStore>>

ReadRef(p) ==
    /\ pc[p] = "read"
    /\ frame' = [frame EXCEPT ![p].parent = ReadParent(refs[frame[p].repo])]
    /\ pc' = [pc EXCEPT ![p] = "build"]
    /\ UNCHANGED <<lockHolder, saves, log, repoVars, objectVars, outsideStore>>

BuildTree(p) ==
    LET r == frame[p].repo IN
    /\ pc[p] = "build"
    /\ blobs' = [blobs EXCEPT ![r] = WriteBlobs(blobs[r], frame[p].work_dir)]
    /\ frame' = [frame EXCEPT ![p].tree = TreeOf(frame[p].work_dir)]
    /\ pc' = [pc EXCEPT ![p] = "tree"]
    /\ UNCHANGED <<trees, snapshots, lockHolder, saves, log, repoVars, outsideStore>>

StoreTree(p) ==
    LET r == frame[p].repo
        tree_id == TreeId(frame[p].tree)
    IN /\ pc[p] = "tree"
       /\ trees' = [trees EXCEPT ![r] = Put(trees[r], tree_id, frame[p].tree)]
       /\ frame' = [frame EXCEPT ![p].tree_id = tree_id]
       /\ pc' = [pc EXCEPT ![p] = "snapshot"]
       /\ UNCHANGED <<blobs, snapshots, lockHolder, saves, log, repoVars, outsideStore>>

WriteSnapshot(p) ==
    LET r == frame[p].repo
        snapshot_id == SnapshotId(frame[p].tree_id, frame[p].parent)
        f == [frame[p] EXCEPT !.snapshot_id = snapshot_id]
    IN /\ pc[p] = "snapshot"
       /\ snapshots' = [snapshots EXCEPT ![r] = Put(snapshots[r], snapshot_id, SnapshotRecord(f))]
       /\ frame' = [frame EXCEPT ![p] = f]
       /\ pc' = [pc EXCEPT ![p] = "ref"]
       /\ UNCHANGED <<blobs, trees, lockHolder, saves, log, repoVars, outsideStore>>

\* open(ref_path, "w") raises when the refs directory does not exist
WriteRef(p) ==
    LET r == frame[p].repo IN
    /\ pc[p] = "ref"
    /\ IF refs[r] = NoFile
       THEN /\ frame' = [frame EXCEPT ![p].ret = "error"]
            /\ UNCHANGED <<refs, log>>
       ELSE /\ refs' = [refs EXCEPT ![r] = frame[p].snapshot_id]
            /\ frame' = [frame EXCEPT ![p].ret = "ok"]
            /\ log' = [log EXCEPT ![r] = Append(@,
                         [proc |-> p,
                          work_dir |-> frame[p].work_dir,
                          parent |-> frame[p].parent,
                          id |-> frame[p].snapshot_id,
                          contended |-> \E q \in Procs \ {p} :
                                           pc[q] = "lock" /\ frame[q].repo = r])]
    /\ pc' = [pc EXCEPT ![p] = "unlock"]
    /\ UNCHANGED <<repoDir, meta, favorite, lockHolder, saves, objectVars, outsideStore>>

\* a return that leaves the lock with the caller
UnlockRepoKeepingLock(p) ==
    /\ pc[p] = "unlock"
    /\ pc' = [pc EXCEPT ![p] = "idle"]
    /\ UNCHANGED <<lockHolder, frame, saves, log, repoVars, objectVars, outsideStore>>

\* the finally clause: _unlock_repo, then the call returns or raises
UnlockRepo(p) ==
    /\ pc[p] = "unlock"
    /\ lockHolder' = [lockHolder EXCEPT ![frame[p].repo] = NoProc]
    /\ pc' = [pc EXCEPT ![p] = "idle"]
    /\ UNCHANGED <<frame, saves, log, repoVars, objectVars, outsideStore>>

\* init_repo, first half: the repository directory and meta.json
InitRepoDirStep(name) ==
    /\ InitRepoMeta(name)
    /\ UNCHANGED <<refs, objectVars, callVars, outsideStore>>

\* init_repo, second half: refs/main is written empty
InitRepoRefsStep(name) ==
    /\ name \in repoDir
    /\ InitRepoRefs(name)
    /\ UNCHANGED <<repoDir, meta, favorite, objectVars, callVars, outsideStore>>

SaveSteps ==
    \/ \E p \in Procs, repo \in RepoNames, message \in Messages, work_dir \in WorkDirs :
          SaveSnapshot(p, repo, message, work_dir)
    \/ \E p \in Procs : LockRepo(p)
    \/ \E p \in Procs : ReadRef(p)
    \/ \E p \in Procs : BuildTree(p)
    \/ \E p \in Procs : StoreTree(p)
    \/ \E p \in Procs : WriteSnapshot(p)
    \/ \E p \in Procs : WriteRef(p)
    \/ \E p \in Procs : UnlockRepo(p)

StoreNext ==
    \/ \E name \in RepoNames : InitRepoDirStep(name)
    \/ \E name \in RepoNames : InitRepoRefsStep(name)
    \/ \E p \in Procs, repo \in RepoNames, message \in Messages, work_dir \in WorkDirs :
          SaveSnapshot(p, repo, message, work_dir)
    \/ \E p \in Procs : LockRepo(p)
    \/ \E p \in Procs : ReadRef(p)
    \/ \E p \in Procs : BuildTree(p)
    \/ \E p \in Procs : StoreTree(p)
    \/ \E p \in Procs : WriteSnapshot(p)
    \/ \E p \in Procs : WriteRef(p)
    \/ \E p \in Procs : UnlockRepo(p)

StoreSpec == Init /\ [][StoreNext]_vars

\* every repository has been created by init_repo and holds no snapshot yet
SavesInit ==
    /\ ClockInit /\ TokenInit /\ AccessInit /\ ObjectInit /\ CallInit
    /\ ClientStoreInit
    /\ repoDir = RepoNames
    /\ meta = RepoNames
    /\ favorite = {}
    /\ refs = [r \in RepoNames |-> EmptyRef]

SavesSpec == SavesInit /\ [][SaveSteps]_vars

\* ------------------------------------------------------------------------
\* Snapshot store properties
\* ------------------------------------------------------------------------
HoldsLock(p) == pc[p] \in {"read", "build", "tree", "snapshot", "ref", "unlock"}

InTransaction(p) == pc[p] \in {"read", "build", "tree", "snapshot", "ref"}

Returned(p) == pc[p] = "idle" /\ frame[p].ret # "none"

Quiescent(r) == \A p \in Procs : pc[p] # "idle" => frame[p].repo # r

LoggedIds(r) == {log[r][i].id : i \in DOMAIN log[r]}

\* the snapshot, tree and blobs of a logged save are stored whole
Complete(r, e) ==
    LET tree == TreeOf(e.work_dir)
        tree_id == TreeId(tree)
    IN /\ e.id \in DOMAIN snapshots[r]
       /\ snapshots[r][e.id].snapshot_id = e.id
       /\ snapshots[r][e.id].root_tree = tree_id
       /\ snapshots[r][e.id].parent = (IF e.parent = EmptyRef THEN NoneValue ELSE e.parent)
       /\ tree_id \in DOMAIN trees[r]
       /\ trees[r][tree_id] = tree
       /\ \A path \in DOMAIN e.work_dir :
             /\ tree.entries[path].id \in DOMAIN blobs[r]
             /\ blobs[r][tree.entries[path].id] = e.work_dir[path]

\* C7: saves racing on one repository all return a snapshot id; saves of
\* distinct trees get distinct ids; once no save is running, refs/main holds
\* one of the returned ids; every saved snapshot is stored whole.
ParallelSavesAllSucceed ==
    /\ \A p \in Procs : Returned(p) => frame[p].ret = "ok"
    /\ \A p \in Procs :
          Returned(p) => \E i \in DOMAIN log[frame[p].repo] :
                            /\ log[frame[p].repo][i].proc = p
                            /\ log[frame[p].repo][i].id = frame[p].snapshot_id
    /\ \A r \in RepoNames :
          /\ \A i, j \in DOMAIN log[r] :
                TreeOf(log[r][i].work_dir) # TreeOf(log[r][j].work_dir)
                    => log[r][i].id # log[r][j].id
          /\ \A i \in DOMAIN log[r] : Complete(r, log[r][i])
          /\ (Quiescent(r) /\ log[r] # <<>>) => refs[r] \in LoggedIds(r)

ParallelSavesWitness ==
    \E r \in RepoNames :
        /\ \A p \in Procs : p <= 2 => Returned(p) /\ frame[p].repo = r
        /\ Len(log[r]) = 2
        /\ log[r][1].contended
        /\ log[r][1].proc # log[r][2].proc
        /\ TreeOf(log[r][1].work_dir) # TreeOf(log[r][2].work_dir)

\* C8: the call that reads refs/main or writes objects of a repository
\* holds its lock, so no two calls are inside the transaction on the same
\* repository; every save's parent is the id written by the save before it;
\* a call waiting for the lock can take it whenever no other call on the
\* same repository holds it, whatever happens on other repositories.
RepoLockMutualExclusion ==
    /\ \A p \in Procs : HoldsLock(p) => lockHolder[frame[p].repo] = p
    /\ \A p, q \in Procs :
          (p # q /\ InTransaction(p) /\ InTransaction(q))
              => frame[p].repo # frame[q].repo
    /\ \A r \in RepoNames : \A i \in DOMAIN log[r] :
          log[r][i].parent = (IF i = 1 THEN EmptyRef ELSE log[r][i - 1].id)
    /\ \A p \in Procs :
          (/\ pc[p] = "lock"
           /\ \A q \in Procs \ {p} : HoldsLock(q) => frame[q].repo # frame[p].repo)
              => ENABLED LockRepo(p)

RepoLockWitness ==
    \E r \in RepoNames, p, q \in Procs :
        /\ Len(log[r]) = 2
        /\ log[r][1].contended
        /\ log[r][1].proc = q
        /\ log[r][2].proc = p
        /\ pc[p] = "unlock"
        /\ pc[q] = "idle"

SameCaller(r, i) ==
    /\ log[r][i].proc = log[r][i - 1].proc
    /\ log[r][i].work_dir = log[r][i - 1].work_dir

ResetModes == {"soft", "mixed", "hard"}
\* the message given to a commit and the time at which it runs
CommitInputs == {[message |-> "first", timestamp |-> "2026-01-01T00:00:00Z"],
                 [message |-> "second", timestamp |-> "2026-01-02T00:00:00Z"]}

\* _hash_file: sha256 of the bytes of the file
HashFile(content) == <<"sha256", content>>

\* _build_tree_object
BuildTreeObject(index) ==
    [entries |-> [path \in DOMAIN index |-> [type |-> "blob", id |-> index[path]]]]

\* the id _store_object returns: sha256 of json.dumps(content, sort_keys=True)
StoreObjectId(content) == <<"sha256", content>>

ParentAsWritten(parent) == parent

\* parent_str = parent or ""
ParentStr(parent) == IF parent = NoneValue THEN EmptyRef ELSE parent

\* "s_" + int(sha256(tree_id + parent_str).hexdigest()[:8], 16)
CommitSnapshotId(tree_id, parent) == <<"s_", tree_id, ParentStr(parent)>>

\* the commit the file HEAD names resolves to: f.read().strip() or None
SymbolicHeadCommit ==
    IF cHead = NoHead \/ cHead \notin DOMAIN cRefs \/ cRefs[cHead] = EmptyRef
    THEN NoneValue
    ELSE cRefs[cHead]

\* HEAD holds a snapshot id: ref.startswith("refs/") is false
Detached == cDetached # NoneValue

\* reset, merge and branch: the content of the ref file HEAD names, or HEAD's
\* own content when it names none
HeadCommit == IF Detached THEN cDetached ELSE SymbolicHeadCommit

\* commit: the content of the file .anchor/<HEAD's content>, which is there
\* only when HEAD names a ref file
CommitParent == IF Detached THEN NoneValue ELSE SymbolicHeadCommit

\* commit, reset and merge: the ref file HEAD names is rewritten, or HEAD
\* itself when it names none
AdvanceHead(cid) ==
    IF Detached
    THEN cDetached' = cid /\ cRefs' = cRefs
    ELSE cRefs' = Put(cRefs, cHead, cid) /\ cDetached' = cDetached

\* anchor init
ClientInit ==
    /\ ~cExists
    /\ cExists' = TRUE
    /\ cHead' = MainBranch
    /\ cDetached' = NoneValue
    /\ UNCHANGED <<cRefs, cIndex, cWork, cRemote, clientObjectVars, cCommits, cLog, cLast>>
    /\ UNCHANGED <<repoVars, objectVars, outsideClient>>

\* the user rewrites the working files
ClientEdit(work_dir) ==
    /\ cWork # work_dir
    /\ cWork' = work_dir
    /\ UNCHANGED <<cExists, cHead, cDetached, cRefs, cIndex, cRemote, clientObjectVars, cCommits, cLog, cLast>>
    /\ UNCHANGED <<repoVars, objectVars, outsideClient>>

\* anchor add . : every working file is hashed, its blob kept if it is not
\* there yet, and the index entry set; entries of deleted files stay
ClientAdd ==
    LET new == {HashFile(cWork[path]) : path \in DOMAIN cWork} IN
    /\ cExists
    /\ cWork # <<>>
    /\ cIndex' = [path \in DOMAIN cIndex \cup DOMAIN cWork |->
                    IF path \in DOMAIN cWork THEN HashFile(cWork[path]) ELSE cIndex[path]]
    /\ cBlobs' = [id \in DOMAIN cBlobs \cup new |->
                    IF id \in DOMAIN cBlobs THEN cBlobs[id]
                    ELSE CHOOSE d \in {cWork[path] : path \in DOMAIN cWork} :
                             HashFile(d) = id]
    /\ cIndex' # cIndex
    /\ UNCHANGED <<cExists, cHead, cDetached, cRefs, cWork, cRemote, cTrees, cSnapshots, cCommits, cLog, cLast>>
    /\ UNCHANGED <<repoVars, objectVars, outsideClient>>

\* the snapshot a commit of the index builds
CommitSnapshot(message, timestamp) ==
    LET tree_id == StoreObjectId(BuildTreeObject(cIndex))
        parent == CommitParent
    IN [snapshot_id |-> CommitSnapshotId(tree_id, parent),
        root_tree |-> tree_id,
        parent |-> parent,
        message |-> message,
        timestamp |-> timestamp]

\* commit past the empty-index return: the objects it writes and the ref it sets
CommitObjects(message, timestamp) ==
    LET snapshot == CommitSnapshot(message, timestamp) IN
    /\ cExists
    /\ cIndex # <<>>
    /\ cCommits < MaxCommits
    /\ cCommits' = cCommits + 1
    /\ cTrees' = Put(cTrees, snapshot.root_tree, BuildTreeObject(cIndex))
    /\ cSnapshots' = Put(cSnapshots, snapshot.snapshot_id, snapshot)
    /\ AdvanceHead(snapshot.snapshot_id)
    /\ UNCHANGED <<cExists, cHead, cIndex, cWork, cRemote, cBlobs>>

\* anchor commit -m message, with a non-empty index
ClientCommit(message, timestamp) ==
    LET snapshot == CommitSnapshot(message, timestamp) IN
    /\ CommitObjects(message, timestamp)
    /\ cLog' = Append(cLog, [index |-> cIndex, parent |-> snapshot.parent,
                             tree_id |-> snapshot.root_tree, id |-> snapshot.snapshot_id,
                             message |-> message, timestamp |-> timestamp])
    /\ UNCHANGED cLast
    /\ UNCHANGED <<repoVars, objectVars, outsideClient>>

\* HEAD~1 of reset: the parent recorded in the snapshot file, when there is one
TildeOne(cid) ==
    IF cid # NoneValue /\ cid \in DOMAIN cSnapshots THEN cSnapshots[cid].parent ELSE cid

\* the files reset --hard copies out of the blob store
CheckoutFiles(work, index) ==
    [path \in DOMAIN work \cup {q \in DOMAIN index : index[q] \in DOMAIN cBlobs} |->
        IF path \in DOMAIN index /\ index[path] \in DOMAIN cBlobs
        THEN cBlobs[index[path]] ELSE work[path]]

\* anchor reset [--soft|--hard] HEAD or HEAD~1; the tree of the target is
\* read only when its snapshot file is there
ClientReset(tilde, mode) ==
    LET cid == IF tilde THEN TildeOne(HeadCommit) ELSE HeadCommit
        known == cid \in DOMAIN cSnapshots
        new_index == IF known /\ cSnapshots[cid].root_tree \in DOMAIN cTrees
                     THEN [path \in DOMAIN cTrees[cSnapshots[cid].root_tree].entries |->
                              cTrees[cSnapshots[cid].root_tree].entries[path].id]
                     ELSE cIndex
    IN /\ cExists
       /\ cid # NoneValue
       /\ AdvanceHead(cid)
       /\ cIndex' = IF mode = "soft" THEN cIndex ELSE new_index
       /\ cWork' = IF mode = "hard" /\ known THEN CheckoutFiles(cWork, new_index) ELSE cWork
       /\ <<cRefs', cIndex', cWork'>> # <<cRefs, cIndex, cWork>>
       /\ UNCHANGED <<cExists, cHead, cRemote, clientObjectVars, cCommits, cLog, cLast>>
       /\ UNCHANGED <<repoVars, objectVars, outsideClient>>

ClientNext ==
    \/ ClientInit
    \/ \E work_dir \in WorkDirs : ClientEdit(work_dir)
    \/ ClientAdd
    \/ \E input \in CommitInputs : ClientCommit(input.message, input.timestamp)
    \/ \E tilde \in BOOLEAN, mode \in ResetModes : ClientReset(tilde, mode)

ClientSpec == Init /\ [][ClientNext]_vars

\* C11: the tree id and the snapshot id a client commit computes are the ids
\* the server's save_snapshot computes for the same tree and the same parent,
\* no parent on the client standing for an empty refs/main on the server.
ClientServerParity ==
    \A i \in DOMAIN cLog :
        /\ \A work_dir \in WorkDirs :
              TreeOf(work_dir).entries
                  = [path \in DOMAIN cLog[i].index |->
                        [type |-> "blob", id |-> cLog[i].index[path]]]
              => TreeId(TreeOf(work_dir)) = cLog[i].tree_id
        /\ cLog[i].id
              = SnapshotId(cLog[i].tree_id,
                           ReadParent(IF cLog[i].parent = NoneValue
                                      THEN EmptyRef ELSE cLog[i].parent))

ClientServerParityWitness ==
    /\ Len(cLog) = 2
    /\ cLog[1].parent = NoneValue
    /\ cLog[2].parent = cLog[1].id
    /\ \E work_dir \in WorkDirs : TreeOf(work_dir) = cTrees[cLog[2].tree_id]
    /\ cLog[2].id \in DOMAIN cSnapshots

\* ------------------------------------------------------------------------
\* Readers of the store: get_diff, create_archive (svcs.py)
\* ------------------------------------------------------------------------
\* _load_tree of get_diff: the tree of a snapshot
LoadTree(r, snapshot_id) == trees[r][snapshots[r][snapshot_id].root_tree]

GetDiffNoRemoved(r, from_id, to_id) ==
    LET entries_from == LoadTree(r, from_id).entries
        entries_to == LoadTree(r, to_id).entries
        all_paths == DOMAIN entries_from \cup DOMAIN entries_to
    IN [added |-> {path \in all_paths : path \notin DOMAIN entries_from},
        removed |-> {},
        modified |-> {path \in all_paths :
                        /\ path \in DOMAIN entries_from
                        /\ path \in DOMAIN entries_to
                        /\ entries_from[path].id # entries_to[path].id}]

\* get_diff; the three lists are returned in the order of a set iteration
\* and are kept as sets
GetDiff(r, from_id, to_id) ==
    LET entries_from == LoadTree(r, from_id).entries
        entries_to == LoadTree(r, to_id).entries
        all_paths == DOMAIN entries_from \cup DOMAIN entries_to
    IN [added |-> {path \in all_paths : path \notin DOMAIN entries_from},
        removed |-> {path \in all_paths :
                        path \in DOMAIN entries_from /\ path \notin DOMAIN entries_to},
        modified |-> {path \in all_paths :
                        /\ path \in DOMAIN entries_from
                        /\ path \in DOMAIN entries_to
                        /\ entries_from[path].id # entries_to[path].id}]

\* the snapshots get_diff and create_archive can read without raising
Readable(r) ==
    {id \in DOMAIN snapshots[r] :
        /\ snapshots[r][id].root_tree \in DOMAIN trees[r]
        /\ \A path \in DOMAIN LoadTree(r, id).entries :
              LoadTree(r, id).entries[path].id \in DOMAIN blobs[r]}

\* C12: over the stored snapshots get_diff is symmetric (added and removed
\* swap, modified is the same), its three parts are pairwise disjoint, and
\* the diff of a snapshot with itself is empty.
DiffSymmetry ==
    \A r \in RepoNames : \A a, b \in Readable(r) :
        LET ab == GetDiff(r, a, b)
            ba == GetDiff(r, b, a)
            aa == GetDiff(r, a, a)
        IN /\ ab.added = ba.removed
           /\ ab.removed = ba.added
           /\ ab.modified = ba.modified
           /\ ab.added \cap ab.removed = {}
           /\ ab.added \cap ab.modified = {}
           /\ ab.removed \cap ab.modified = {}
           /\ aa.added = {} /\ aa.removed = {} /\ aa.modified = {}

DiffSymmetryWitness ==
    \E r \in RepoNames : \E a, b \in Readable(r) :
        /\ GetDiff(r, a, b).added # {}
        /\ GetDiff(r, a, b).modified # {}
        /\ GetDiff(r, b, a).removed # {}

CreateArchiveEmptyFiles(r, snapshot_id) ==
    [path \in DOMAIN LoadTree(r, snapshot_id).entries |-> ""]

\* create_archive: the files of the zip, one per entry of the root tree,
\* each with the bytes of its blob
CreateArchive(r, snapshot_id) ==
    LET entries == LoadTree(r, snapshot_id).entries IN
    [path \in DOMAIN entries |-> blobs[r][entries[path].id]]

AllWorkDirs == WorkDirs \cup {<<>>}

\* unzip_and_save_snapshot of the archive of a stored snapshot
UnzipAndSaveSnapshot(p, repo, message, src, snapshot_id) ==
    /\ snapshot_id \in Readable(src)
    /\ SaveSnapshot(p, repo, message, CreateArchive(src, snapshot_id))

ArchiveNext ==
    \/ \E p \in Procs, repo \in RepoNames, message \in Messages, work_dir \in AllWorkDirs :
          SaveSnapshot(p, repo, message, work_dir)
    \/ \E p \in Procs, repo \in RepoNames, message \in Messages, src \in RepoNames :
          \E snapshot_id \in DOMAIN snapshots[src] :
             UnzipAndSaveSnapshot(p, repo, message, src, snapshot_id)
    \/ \E p \in Procs : LockRepo(p)
    \/ \E p \in Procs : ReadRef(p)
    \/ \E p \in Procs : BuildTree(p)
    \/ \E p \in Procs : StoreTree(p)
    \/ \E p \in Procs : WriteSnapshot(p)
    \/ \E p \in Procs : WriteRef(p)
    \/ \E p \in Procs : UnlockRepo(p)

ArchiveSpec == SavesInit /\ [][ArchiveNext]_vars

\* C13: the files of create_archive(R, S), saved again, give the tree of S:
\* the same entries and the same tree id, also when S has no entries; every
\* save of such an archive stores S's root tree.
ArchiveRoundTrip ==
    \A r \in RepoNames : \A id \in Readable(r) :
        LET work_dir == CreateArchive(r, id) IN
        /\ TreeOf(work_dir) = LoadTree(r, id)
        /\ TreeId(TreeOf(work_dir)) = snapshots[r][id].root_tree
        /\ \A r2 \in RepoNames : \A i \in DOMAIN log[r2] :
              log[r2][i].work_dir = work_dir
                  => /\ snapshots[r2][log[r2][i].id].root_tree = snapshots[r][id].root_tree
                     /\ LoadTree(r2, log[r2][i].id) = LoadTree(r, id)

ArchiveRoundTripWitness ==
    \E r, r2 \in RepoNames : \E id \in Readable(r) :
        /\ r # r2
        /\ Cardinality(DOMAIN LoadTree(r, id).entries) = 2
        /\ Len(log[r2]) = 1
        /\ log[r2][1].work_dir = CreateArchive(r, id)
        /\ log[r2][1].id \in Readable(r2)

\* ------------------------------------------------------------------------
\* get_history, and save_snapshot calls that raise (svcs.py)
\* ------------------------------------------------------------------------
\* a file that was opened for writing and not written to its end
Truncated == [truncated |-> TRUE]

RECURSIVE HistoryFrom(_, _)
\* the loop of get_history: follow parent until it is empty or names no file
HistoryFrom(r, current_id) ==
    IF current_id \in {EmptyRef, NoneValue} \/ current_id \notin DOMAIN snapshots[r]
    THEN <<>>
    ELSE IF snapshots[r][current_id] = Truncated
    THEN <<Truncated>>
    ELSE <<snapshots[r][current_id]>> \o HistoryFrom(r, snapshots[r][current_id].parent)

\* a get_history that returns the chain oldest first
GetHistoryOldestFirst(r) ==
    LET history == IF refs[r] = NoFile THEN <<>> ELSE HistoryFrom(r, refs[r]) IN
    [raised |-> FALSE,
     history |-> [i \in 1..Len(history) |-> history[Len(history) + 1 - i]]]

\* get_history; json.load raises on a truncated snapshot file
GetHistory(r) ==
    LET history == IF refs[r] = NoFile THEN <<>> ELSE HistoryFrom(r, refs[r]) IN
    IF \E i \in DOMAIN history : history[i] = Truncated
    THEN [raised |-> TRUE, history |-> <<>>]
    ELSE [raised |-> FALSE, history |-> history]

\* the blob files _build_tree has written when it raises after the files
\* in done
WriteSomeBlobs(store, work_dir, done) ==
    WriteBlobs(store, [path \in done |-> work_dir[path]])

\* a call that raises after it has opened refs/main for writing
RaiseTruncatingRef(p, done, truncated) ==
    /\ pc[p] \in {"read", "build", "tree", "snapshot"}
    /\ done = {}
    /\ ~truncated
    /\ refs' = [refs EXCEPT ![frame[p].repo] = EmptyRef]
    /\ frame' = [frame EXCEPT ![p].ret = "error"]
    /\ pc' = [pc EXCEPT ![p] = "unlock"]
    /\ UNCHANGED <<lockHolder, saves, log, repoDir, meta, favorite, objectVars, outsideStore>>

\* save_snapshot raises inside the try block before refs/main is opened: an
\* OSError while reading refs/main, reading a file or writing a blob, the
\* tree or the snapshot; a write that raises leaves the file truncated or
\* does not create it
Raise(p, done, truncated) ==
    LET r == frame[p].repo
        tree == TreeOf(frame[p].work_dir)
        snapshot_id == SnapshotId(frame[p].tree_id, frame[p].parent)
    IN /\ pc[p] \in {"read", "build", "tree", "snapshot"}
       /\ done \subseteq DOMAIN frame[p].work_dir
       /\ pc[p] # "build" => done = {}
       /\ pc[p] \in {"read", "build"} => ~truncated
       /\ blobs' = IF pc[p] = "build"
                   THEN [blobs EXCEPT ![r] = WriteSomeBlobs(blobs[r], frame[p].work_dir, done)]
                   ELSE blobs
       /\ trees' = IF pc[p] = "tree" /\ truncated
                   THEN [trees EXCEPT ![r] = Put(trees[r], TreeId(tree), Truncated)]
                   ELSE trees
       /\ snapshots' = IF pc[p] = "snapshot" /\ truncated
                       THEN [snapshots EXCEPT ![r] = Put(snapshots[r], snapshot_id, Truncated)]
                       ELSE snapshots
       /\ frame' = [frame EXCEPT ![p].ret = "error"]
       /\ pc' = [pc EXCEPT ![p] = "unlock"]
       /\ UNCHANGED <<lockHolder, saves, log, repoVars, outsideStore>>

FailureWorkDirs == {w \in WorkDirs : w["hello.txt"] = "hi"}

FailureNext ==
    \/ \E p \in Procs, repo \in RepoNames, message \in Messages, work_dir \in FailureWorkDirs :
          SaveSnapshot(p, repo, message, work_dir)
    \/ \E p \in Procs : LockRepo(p)
    \/ \E p \in Procs : ReadRef(p)
    \/ \E p \in Procs : BuildTree(p)
    \/ \E p \in Procs : StoreTree(p)
    \/ \E p \in Procs : WriteSnapshot(p)
    \/ \E p \in Procs : WriteRef(p)
    \/ \E p \in Procs : UnlockRepo(p)
    \/ \E p \in Procs, done \in SUBSET {"hello.txt", "d/world.txt"}, truncated \in BOOLEAN :
          Raise(p, done, truncated)

FailureSpec == SavesInit /\ [][FailureNext]_vars

\* the step in which a call writes its snapshot id to refs/main
Commits(p) == pc[p] = "ref" /\ pc'[p] = "unlock" /\ frame'[p].ret = "ok"

\* C14: a save_snapshot call changes refs/main and the list get_history
\* returns only in the step that writes refs/main; a call that raises before
\* that step leaves both as they were.
NoCommitBeforeRef ==
    [][\A r \in RepoNames :
          (refs'[r] # refs[r] \/ GetHistory(r)' # GetHistory(r))
              => \E p \in Procs : frame[p].repo = r /\ Commits(p)]_vars

\* a call has raised after writing its tree and a truncated snapshot file,
\* on a repository that has a history
NoCommitBeforeRefWitness ==
    \E p \in Procs :
        /\ pc[p] = "unlock"
        /\ frame[p].ret = "error"
        /\ frame[p].tree_id \in DOMAIN trees[frame[p].repo]
        /\ \E id \in DOMAIN snapshots[frame[p].repo] :
              snapshots[frame[p].repo][id] = Truncated
        /\ Len(log[frame[p].repo]) = 1
        /\ refs[frame[p].repo] = log[frame[p].repo][1].id
        /\ Len(GetHistory(frame[p].repo).history) = 1

\* ------------------------------------------------------------------------
\* Object stores
\* ------------------------------------------------------------------------
\* no file of the store changes its content or disappears in the step
Kept(store) == \A id \in DOMAIN store : id \in DOMAIN store' /\ store'[id] = store[id]

\* C15: once a blob, tree or snapshot is written under an id in the client's
\* .anchor store or in a server repository, no later step changes what is
\* stored under that id.
ObjectsWriteOnce ==
    [][/\ Kept(cBlobs) /\ Kept(cTrees) /\ Kept(cSnapshots)
       /\ \A r \in RepoNames : Kept(blobs[r]) /\ Kept(trees[r]) /\ Kept(snapshots[r])]_vars

\* ------------------------------------------------------------------------
\* Creating a repository again (routers/repo.py, svcs.py)
\* ------------------------------------------------------------------------
\* Depends(check_repo_access): get_current_user, then the directory must exist
CheckRepoAccess(tok, req, name) ==
    LET v == VerifyToken(tok, req, now) IN
    IF ~v.ok THEN v
    ELSE IF name \notin repoDir THEN Result(FALSE, 404, "Repository not found")
    ELSE v

\* PATCH /repos/{name}/favorite: is_favorite is written into meta.json
ToggleRepositoryFavorite(tok, req, name, is_favorite) ==
    LET access == CheckRepoAccess(tok, req, name)
        res == IF access.ok /\ name \notin meta
               THEN Result(FALSE, 404, "Repository not found") ELSE access
    IN /\ resp' = Response("toggle_favorite", res, tok, req, [NoData EXCEPT !.name = name])
       /\ favorite' = IF ~res.ok THEN favorite
                      ELSE IF is_favorite THEN favorite \cup {name} ELSE favorite \ {name}
       /\ UNCHANGED <<repoDir, meta, refs, writes, held, users, clockVars, outsideAccess>>

RecreateNext ==
    \/ \E req \in GateLoginRequests : CreateAccessToken(AdminUsername, req, TRUE)
    \/ \E tok \in Bearers, req \in GateLoginRequests, name \in GateRepoNames :
          CreateRepo(tok, req, name)
    \/ \E tok \in Bearers, req \in GateLoginRequests, name \in GateRepoNames,
          is_favorite \in BOOLEAN : ToggleRepositoryFavorite(tok, req, name, is_favorite)
    \/ \E p \in Procs, repo \in GateRepoNames, message \in Messages, work_dir \in FailureWorkDirs :
          SaveSnapshot(p, repo, message, work_dir)
    \/ \E p \in Procs : LockRepo(p)
    \/ \E p \in Procs : ReadRef(p)
    \/ \E p \in Procs : BuildTree(p)
    \/ \E p \in Procs : StoreTree(p)
    \/ \E p \in Procs : WriteSnapshot(p)
    \/ \E p \in Procs : WriteRef(p)
    \/ \E p \in Procs : UnlockRepo(p)

RecreateSpec == Init /\ [][RecreateNext]_vars

\* a create-repo request that passed the step-up and permission checks has
\* been answered in this step
CreateAnswered(name) ==
    /\ <<resp, writes>>' # <<resp, writes>>
    /\ resp'.op = "create_repo"
    /\ resp'.data.name = name
    /\ resp'.status \notin {401, 403}

\* C16: a create-repo request for a name that already exists is answered with
\* a Conflict error and leaves refs/main, meta.json with its is_favorite flag
\* and the history of the existing repository as they were.
CreateExistingConflicts ==
    [][\A name \in RepoNames :
          (name \in repoDir /\ CreateAnswered(name)) =>
              /\ resp'.status = 409
              /\ refs'[name] = refs[name]
              /\ (name \in meta') = (name \in meta)
              /\ (name \in favorite') = (name \in favorite)
              /\ GetHistory(name)' = GetHistory(name)]_vars

\* ------------------------------------------------------------------------
\* Logout and password rotation (routers/auth.py, routers/user.py)
\* ------------------------------------------------------------------------
\* validate_and_rotate would accept token k under some fingerprint
StillValid(k) ==
    \E fp \in Fingerprints : ValidateOutcome(tokens, k, fp, now) = "rotated"

\* C17: after logout has revoked the refresh token of the cookie
\* (revoke_token), validate_and_rotate fails for that token and for every
\* other token of its rotation family, predecessors and successors alike.
LogoutRevokesFamily ==
    (last.op = "revoke" /\ last.outcome = "revoked") =>
        \A k \in Issued : family[k] = family[last.token] => ~StillValid(k)

\* refresh tokens next to the profile endpoint: logins mint refresh tokens,
\* the admin obtains a step-up access token and updates the profile
PasswordData == {d \in ProfileData : d.new_password # NoValue /\ d.username = NoValue}

SessionNext ==
    \/ \E fp \in Fingerprints : GenerateRefreshToken(AdminUsername, fp)
    \/ \E t \in Issued, fp \in Fingerprints : ValidateAndRotate(t, fp)
    \/ \E req \in GateLoginRequests : CreateAccessToken(AdminUsername, req, TRUE)
    \/ \E tok \in Bearers, req \in GateLoginRequests, data \in PasswordData :
          UpdateProfile(tok, req, data)

SessionSpec == Init /\ [][SessionNext]_vars

\* a profile update that changes the password has succeeded in this step
PasswordChanged ==
    /\ <<resp, writes>>' # <<resp, writes>>
    /\ resp'.op = "update_profile"
    /\ resp'.status = 200
    /\ resp'.data.new_password # NoValue

\* C18: after a successful password change through the profile update no
\* refresh token issued to that user before the change is accepted by
\* validate_and_rotate.
PasswordChangeRevokesSessions ==
    [][PasswordChanged =>
          \A k \in DOMAIN tokens :
              tokens[k].username = resp'.tok.payload.sub => ~StillValid(k)']_vars

\* ------------------------------------------------------------------------
\* Password login, 2FA login and step-up (routers/auth.py)
\* ------------------------------------------------------------------------
\* the password the configuration database holds for the admin
AdminPassword == "pw1"
Passwords == {AdminPassword, "pw2"}
\* the code the authenticator shows for the stored secret, and another one
CurrentCode == "123456"
TotpCodes == {CurrentCode, "000000"}

\* get_admin_password_hash: the configured password, hashed on the fly
GetAdminPasswordHash == GetPasswordHash(AdminPassword)

\* bcrypt.checkpw
VerifyPassword(plain_password, hashed_password) ==
    hashed_password = GetPasswordHash(plain_password)

\* pyotp.TOTP(secret).verify(code)
TotpVerify(secret, code) == secret # "" /\ code = CurrentCode

\* the response of a handler that issues an access token and a refresh cookie
IssueTokens(op, username, req, data) ==
    LET fingerprint == GetDeviceFingerprint(req)
        access == AccessPayload(username, fingerprint, FALSE, now)
    IN /\ nextTok <= MaxTokens
       /\ held' = access
       /\ tokens' = Put(tokens, nextTok, NewRecord(username, fingerprint, now))
       /\ nextTok' = nextTok + 1
       /\ family' = Put(family, nextTok, nextTok)
       /\ last' = Call("generate", NoToken, fingerprint, username, "issued", nextTok)
       /\ resp' = Response(op, Result(TRUE, 200, ""), NoBearer, req,
                           [data EXCEPT !.access_token = access, !.refresh_token = nextTok])
       /\ UNCHANGED consumed

\* the response of a handler that issues nothing
Refuse(op, res, tok, req, data) ==
    /\ resp' = Response(op, res, tok, req, data)
    /\ UNCHANGED <<held, tokenVars>>


\* POST /auth/refresh with the cookie refresh_token = t
Refresh(t, req) ==
    LET fingerprint == GetDeviceFingerprint(req)
        outcome == ValidateOutcome(tokens, t, fingerprint, now)
        access == AccessPayload(tokens[t].username, fingerprint, FALSE, now)
        data == [NoData EXCEPT !.refresh_token = nextTok]
    IN /\ RotationStep(t, fingerprint)
       /\ IF outcome = "rotated"
          THEN /\ held' = access
               /\ resp' = Response("refresh", Result(TRUE, 200, ""), NoBearer, req,
                                   [data EXCEPT !.access_token = access])
          ELSE /\ held' = held
               /\ resp' = Response("refresh",
                                   Result(FALSE, 401, "Invalid or expired refresh token"),
                                   NoBearer, req, NoData)
       /\ UNCHANGED <<writes, users, clockVars, repoVars, objectVars, callVars, clientVars, challenges, authz, raceVars>>

\* a login that issues tokens without looking at the 2FA settings
LoginSkipping2fa(username, password, req) ==
    LET is_admin == username = AdminUsername /\ VerifyPassword(password, GetAdminPasswordHash)
        is_guest == username = "guest" /\ password = "guest"
        data == [NoData EXCEPT !.username = username, !.password = password]
    IN /\ IF ~(is_admin \/ is_guest)
          THEN Refuse("login", Result(FALSE, 401, "Invalid username or password"),
                      NoBearer, req, data)
          ELSE IssueTokens("login", username, req, data)
       /\ attempt' = attempt
       /\ UNCHANGED <<writes, users, clockVars, repoVars, objectVars, callVars, clientVars, challenges, authz, rot>>

\* POST /auth/login
Login(username, password, req) ==
    LET is_admin == username = AdminUsername /\ VerifyPassword(password, GetAdminPasswordHash)
        is_guest == username = "guest" /\ password = "guest"
        data == [NoData EXCEPT !.username = username, !.password = password]
    IN /\ IF ~(is_admin \/ is_guest)
          THEN Refuse("login", Result(FALSE, 401, "Invalid username or password"),
                      NoBearer, req, data)
          ELSE IF GetUser2fa(users, username).enabled
          THEN Refuse("login", Result(TRUE, 200, ""), NoBearer, req,
                      [data EXCEPT !.status = "2fa_required"])
          ELSE IssueTokens("login", username, req, data)
       /\ attempt' = IF (is_admin \/ is_guest) /\ GetUser2fa(users, username).enabled
                     THEN attempt \cup {username} ELSE attempt
       /\ UNCHANGED <<writes, users, clockVars, repoVars, objectVars, callVars, clientVars, challenges, authz, rot>>

\* POST /auth/login/2fa
Login2fa(username, code, req) ==
    LET two_fa == GetUser2fa(users, username)
        data == [NoData EXCEPT !.username = username, !.code = code]
    IN /\ IF username # AdminUsername
          THEN Refuse("login_2fa", Result(FALSE, 401, "Invalid user"), NoBearer, req, data)
          ELSE IF ~two_fa.enabled \/ two_fa.secret = ""
          THEN Refuse("login_2fa", Result(FALSE, 400, "2FA not enabled"), NoBearer, req, data)
          ELSE IF ~TotpVerify(two_fa.secret, code)
          THEN Refuse("login_2fa", Result(FALSE, 401, "Invalid 2FA code"), NoBearer, req, data)
          ELSE IssueTokens("login_2fa", username, req, data)
       /\ attempt' = IF username = AdminUsername /\ two_fa.enabled /\ two_fa.secret # ""
                        /\ TotpVerify(two_fa.secret, code)
                     THEN attempt \ {username} ELSE attempt
       /\ UNCHANGED <<writes, users, clockVars, repoVars, objectVars, callVars, clientVars, challenges, authz, rot>>

\* GET /auth/ssh-challenge
SshChallenge(username, req) ==
    /\ IF username # AdminUsername
       THEN /\ challenges' = challenges
            /\ Refuse("ssh_challenge", Result(FALSE, 404, "User not found"), NoBearer, req,
                      [NoData EXCEPT !.username = username])
       ELSE /\ challenges' = challenges \cup {username}
            /\ Refuse("ssh_challenge", Result(TRUE, 200, ""), NoBearer, req,
                      [NoData EXCEPT !.username = username])
    /\ UNCHANGED <<writes, users, clockVars, repoVars, objectVars, callVars, clientVars, authz, raceVars>>

\* POST /auth/ssh-login; verifies tells whether the signature of the
\* challenge verifies under the stored key
SshLogin(username, key, verifies, req) ==
    LET keys == GetUserKeys(users, username)
        found == \E i \in DOMAIN keys : keys[i].id = KeyId(key)
        data == [NoData EXCEPT !.username = username, !.key = key]
    IN /\ IF username \notin challenges
          THEN /\ challenges' = challenges
               /\ Refuse("ssh_login", Result(FALSE, 400, "No challenge found"), NoBearer, req, data)
          ELSE IF ~found
          THEN /\ challenges' = challenges
               /\ Refuse("ssh_login", Result(FALSE, 404, "Key not found"), NoBearer, req, data)
          ELSE IF ~verifies
          THEN /\ challenges' = challenges
               /\ Refuse("ssh_login", Result(FALSE, 401, "Invalid signature"), NoBearer, req, data)
          ELSE /\ challenges' = challenges \ {username}
               /\ IssueTokens("ssh_login", username, req, data)
       /\ UNCHANGED <<writes, users, clockVars, repoVars, objectVars, callVars, clientVars, authz, raceVars>>

\* the StepUpRequest of routers/auth.py has the field password only and
\* forbids extra fields: a body with a code is refused by the validator
StepUpBodyValid(body) == body.code = NoValue

\* the 2FA branch of step_up reads req.code, which the StepUpRequest of
\* routers/auth.py does not have
StepUpCodeCheck(two_fa, body) == Result(FALSE, 500, "Internal Server Error")

\* POST /auth/step-up
StepUp(tok, req, body) ==
    LET v == VerifyToken(tok, req, now)
        username == tok.payload.sub
        two_fa == GetUser2fa(users, username)
        res == IF ~v.ok THEN v
               ELSE IF ~StepUpBodyValid(body)
               THEN Result(FALSE, 422, "Extra inputs are not permitted")
               ELSE IF username # AdminUsername
                       \/ ~VerifyPassword(body.password, GetAdminPasswordHash)
               THEN Result(FALSE, 401, "Invalid password")
               ELSE IF two_fa.enabled THEN StepUpCodeCheck(two_fa, body)
               ELSE Result(TRUE, 200, "")
        access == AccessPayload(username, GetDeviceFingerprint(req), TRUE, now)
        data == [NoData EXCEPT !.password = body.password, !.code = body.code]
    IN /\ resp' = Response("step_up", res, tok, req,
                           IF res.ok THEN [data EXCEPT !.access_token = access] ELSE data)
       /\ held' = IF res.ok THEN access ELSE held
       /\ UNCHANGED <<writes, users, clockVars, repoVars, outsideAccess>>

StepUpBodies == [password : Passwords, code : {NoValue} \cup TotpCodes]

ReauthNext ==
    \/ \E username \in Usernames, password \in Passwords \cup {"guest"}, req \in GateLoginRequests :
          Login(username, password, req)
    \/ \E tok \in Bearers, req \in GateLoginRequests, codeOk \in BOOLEAN : Enable2fa(tok, req, codeOk)
    \/ \E tok \in Bearers, req \in GateLoginRequests, body \in StepUpBodies : StepUp(tok, req, body)

ReauthSpec == Init /\ [][ReauthNext]_vars

\* a step-up request of the admin, authenticated by its access token, has
\* been answered in this step
StepUpAnswered ==
    /\ <<resp, held>>' # <<resp, held>>
    /\ resp'.op = "step_up"
    /\ Authenticated(resp')
    /\ resp'.tok.payload.sub = AdminUsername

\* the request carries the admin's password and, when 2FA is enabled for the
\* admin, a code that verifies
FullReauthentication ==
    LET two_fa == GetUser2fa(users, AdminUsername) IN
    /\ VerifyPassword(resp'.data.password, GetAdminPasswordHash)
    /\ two_fa.enabled => TotpVerify(two_fa.secret, resp'.data.code)

\* C19: a step-up request of the admin is answered with an access token
\* carrying step_up exactly when the password is correct and, with 2FA
\* enabled, a correct TOTP code is submitted with it.
StepUpOnFullReauthentication ==
    [][StepUpAnswered =>
          ((resp'.status = 200 /\ resp'.data.access_token.step_up /\ held'.step_up)
              <=> FullReauthentication)]_vars

\* ------------------------------------------------------------------------
\* Login with 2FA enabled
\* ------------------------------------------------------------------------
LoginNext ==
    \/ \E username \in Usernames, password \in Passwords \cup {"guest"}, req \in GateLoginRequests :
          Login(username, password, req)
    \/ \E username \in Usernames, code \in TotpCodes, req \in GateLoginRequests :
          Login2fa(username, code, req)
    \/ \E tok \in Bearers, req \in GateLoginRequests, codeOk \in BOOLEAN : Enable2fa(tok, req, codeOk)
    \/ \E t \in Issued, req \in GateLoginRequests : Refresh(t, req)
    \/ \E tok \in Bearers, req \in GateLoginRequests :
          StepUp(tok, req, [password |-> AdminPassword, code |-> NoValue])
    \/ \E tok \in Bearers, req \in GateLoginRequests, key \in KeyStrings : CreateKey(tok, req, key)
    \/ \E username \in Usernames, req \in GateLoginRequests : SshChallenge(username, req)
    \/ \E username \in Usernames, key \in KeyStrings, verifies \in BOOLEAN, req \in GateLoginRequests :
          SshLogin(username, key, verifies, req)

LoginSpec == Init /\ [][LoginNext]_vars

\* the step stores a refresh token for user u or hands out an access token
\* for u
IssuedTo(u) ==
    \/ \E k \in DOMAIN tokens' \ DOMAIN tokens : tokens'[k].username = u
    \/ resp' # resp /\ resp'.data.access_token.sub = u
    \/ held' # held /\ held'.sub = u

\* the step answers a /auth/login request carrying correct credentials of u
PasswordLoginOf(u) ==
    /\ <<resp, tokens>>' # <<resp, tokens>>
    /\ resp'.op = "login"
    /\ resp'.data.username = u
    /\ \/ u = AdminUsername /\ VerifyPassword(resp'.data.password, GetAdminPasswordHash)
       \/ u = "guest" /\ resp'.data.password = "guest"

\* the answer is 2fa_required and nothing was issued
NothingIssued ==
    /\ resp'.status = 200
    /\ resp'.data.status = "2fa_required"
    /\ resp'.data.access_token = NoPayload
    /\ resp'.data.refresh_token = NoToken
    /\ tokens' = tokens
    /\ nextTok' = nextTok
    /\ held' = held

\* the step answers /auth/login/2fa for u with a code that verifies
VerifiedLogin2fa(u) ==
    /\ resp'.op = "login_2fa"
    /\ resp'.data.username = u
    /\ TotpVerify(GetUser2fa(users, u).secret, resp'.data.code)

\* C20 as stated: with 2FA enabled a /auth/login with correct credentials
\* returns 2fa_required and issues nothing, and every step that issues a
\* token for that user is a /auth/login/2fa whose TOTP code verifies.
TokensOnlyByLogin2fa ==
    [][\A u \in Usernames : GetUser2fa(users, u).enabled =>
          /\ PasswordLoginOf(u) => NothingIssued
          /\ IssuedTo(u) => VerifiedLogin2fa(u)]_vars

\* C20: with 2FA enabled a /auth/login with correct credentials returns
\* 2fa_required and issues nothing, and of the two login endpoints only
\* /auth/login/2fa issues tokens for that user, after the TOTP code verifies.
PasswordLoginNeedsSecondFactor ==
    [][\A u \in Usernames : GetUser2fa(users, u).enabled =>
          /\ PasswordLoginOf(u) => NothingIssued
          /\ (resp'.op \in {"login", "login_2fa"} /\ IssuedTo(u)) => VerifiedLogin2fa(u)]_vars

\* the admin, holding a refresh token from before 2FA was enabled, has sent
\* the correct password and was answered 2fa_required
PasswordLoginWitness ==
    /\ resp.op = "login"
    /\ resp.data.username = AdminUsername
    /\ resp.data.password = AdminPassword
    /\ resp.data.status = "2fa_required"
    /\ GetUser2fa(users, AdminUsername).enabled
    /\ \E k \in DOMAIN tokens : tokens[k].username = AdminUsername

\* ------------------------------------------------------------------------
\* Authorization checks (authorization.py)
\* ------------------------------------------------------------------------
Permissions ==
    {"read:repo", "write:repo", "delete:repo", "create:repo", "admin:repo",
     "read:profile", "write:profile", "manage:keys", "export:keys", "admin:*",
     "create:snapshot", "read:snapshot", "restore:snapshot"}

\* the user dicts of the checks: the admin, two other users, one without sub
Subjects == {[sub |-> u] : u \in {AdminUsername, "guest", "alice", ""}}

Resources ==
    {NoResource} \cup [given : {TRUE}, type : {"", "repo"}, id : {"", "r1"}]

HasPermissionCall(user, permission) ==
    /\ authz' = [op |-> "has_permission", user |-> user, permission |-> permission,
                 resource |-> NoResource, ok |-> HasPermission(user, permission),
                 status |-> 0]
    /\ UNCHANGED <<clockVars, tokenVars, accessVars, repoVars, objectVars, callVars,
                   clientVars, challenges, raceVars>>

RequirePermissionCall(user, permission, resource) ==
    LET res == RequirePermissionOn(user, permission, resource) IN
    /\ authz' = [op |-> "require_permission", user |-> user, permission |-> permission,
                 resource |-> resource, ok |-> res.ok, status |-> res.status]
    /\ UNCHANGED <<clockVars, tokenVars, accessVars, repoVars, objectVars, callVars,
                   clientVars, challenges, raceVars>>

AuthzNext ==
    \/ \E user \in Subjects, permission \in Permissions : HasPermissionCall(user, permission)
    \/ \E user \in Subjects, permission \in Permissions, resource \in Resources :
          RequirePermissionCall(user, permission, resource)

AuthzSpec == Init /\ [][AuthzNext]_vars

\* C21: has_permission is true for every permission when sub is the admin
\* username, true exactly for read:repo and read:profile for any other
\* non-empty sub, and false for a user without sub.
RolePermissionLookup ==
    authz.op = "has_permission" =>
        LET sub == authz.user.sub IN
        /\ sub = AdminUsername => authz.ok
        /\ sub \notin {AdminUsername, ""} =>
              (authz.ok <=> authz.permission \in {"read:repo", "read:profile"})
        /\ sub = "" => ~authz.ok

\* a user that is neither the admin nor named guest is refused write:repo
RolePermissionLookupWitness ==
    /\ authz.op = "has_permission"
    /\ authz.user.sub = "alice"
    /\ authz.permission = "write:repo"
    /\ ~authz.ok

\* the resource of the check carries a type and an id
Owned(resource) == resource.given /\ resource.type # "" /\ resource.id # ""

\* C22: require_permission with a resource that carries a type and an id
\* succeeds only for the admin and raises 403 for every other user, also
\* when the user's role holds the permission; it raises 403 for anyone whose
\* role lacks the permission.
NonAdminsOwnNothing ==
    authz.op = "require_permission" =>
        LET sub == authz.user.sub
            held_by_role == sub # "" /\
                ({"admin:*", authz.permission} \cap RolePermissions(GetUserRole(sub)) # {})
        IN /\ Owned(authz.resource) =>
                 /\ authz.ok <=> sub = AdminUsername
                 /\ sub # AdminUsername => authz.status = 403
           /\ ~held_by_role => ~authz.ok /\ authz.status = 403

\* a guest asking read:repo, which its role holds, on a named repository is
\* answered 403
NonAdminsOwnNothingWitness ==
    /\ authz.op = "require_permission"
    /\ authz.user.sub = "guest"
    /\ authz.permission = "read:repo"
    /\ Owned(authz.resource)
    /\ authz.status = 403

\* the last response answers an ssh-login whose signature was checked
\* against the stored challenge of the user
SshLoginChecked ==
    /\ resp.op = "ssh_login"
    /\ resp.status \in {200, 401}

\* C23: once an ssh-login request has been checked against the stored
\* challenge, the challenge is no longer in the map, whatever the outcome.
ChallengeOneShot ==
    SshLoginChecked => resp.data.username \notin challenges

\* ------------------------------------------------------------------------
\* validate_and_rotate called from several threads (token_manager.py 92-152)
\* The manager holds no lock: a thread can be suspended between the checks,
\* the marking of the old record and the linking of the new one.
\* ------------------------------------------------------------------------
\* lines 108-132: the checks; a refused token is answered at once
RotateValidate(p, t, fp) ==
    LET outcome == ValidateOutcome(tokens, t, fp, now) IN
    /\ rot[p].pc \in {"idle", "done"}
    /\ IF outcome = "rotated"
       THEN /\ rot' = [rot EXCEPT ![p] = [pc |-> "validated", token |-> t, fp |-> fp,
                                          user |-> tokens[t].username,
                                          new |-> NoToken, ok |-> FALSE]]
            /\ UNCHANGED tokenVars
       ELSE /\ RotationStep(t, fp)
            /\ rot' = [rot EXCEPT ![p] = [pc |-> "done", token |-> t, fp |-> fp, user |-> "",
                                          new |-> NoToken, ok |-> FALSE]]
    /\ UNCHANGED <<clockVars, accessVars, repoVars, objectVars, callVars, clientVars,
                   challenges, authz, attempt>>

\* lines 135-141: token_data['used'] = True, then generate_refresh_token.
\* token_data is the record read at line 112; when another thread has
\* deleted it from the store meanwhile, the store has no record to mark.
RotateIssue(p) ==
    LET t == rot[p].token
        fp == rot[p].fp
        stored == t \in DOMAIN tokens
        newFp == IF fp # NoFingerprint \/ ~stored THEN fp ELSE tokens[t].fingerprint
        marked == IF stored THEN [tokens EXCEPT ![t].used = TRUE] ELSE tokens
    IN /\ rot[p].pc = "validated"
       /\ nextTok <= MaxTokens
       /\ tokens' = Put(marked, nextTok, NewRecord(rot[p].user, newFp, now))
       /\ nextTok' = nextTok + 1
       /\ family' = Put(family, nextTok, family[t])
       /\ rot' = [rot EXCEPT ![p].pc = "issued", ![p].new = nextTok]
       /\ UNCHANGED <<consumed, last>>
       /\ UNCHANGED <<clockVars, accessVars, repoVars, objectVars, callVars, clientVars,
                      challenges, authz, attempt>>

\* lines 144-152: token_data['rotated_to'] = new hash, _save_tokens, return
RotateLink(p) ==
    LET t == rot[p].token IN
    /\ rot[p].pc = "issued"
    /\ tokens' = IF t \in DOMAIN tokens
                 THEN [tokens EXCEPT ![t].rotated_to = rot[p].new] ELSE tokens
    /\ consumed' = consumed \cup {t}
    /\ last' = Call("validate", t, rot[p].fp, rot[p].user, "rotated", rot[p].new)
    /\ rot' = [rot EXCEPT ![p].pc = "done", ![p].ok = TRUE]
    /\ UNCHANGED <<nextTok, family>>
    /\ UNCHANGED <<clockVars, accessVars, repoVars, objectVars, callVars, clientVars,
                   challenges, authz, attempt>>

ThreadNext ==
    \/ \E fp \in {"F1", "F2"} :
          GenerateRefreshToken(AdminUsername, fp)
    \/ \E t \in Issued : RevokeToken(t)
    \/ \E p \in Procs, t \in Issued, fp \in {"F1", "F2"} : RotateValidate(p, t, fp)
    \/ \E p \in Procs : RotateIssue(p)
    \/ \E p \in Procs : RotateLink(p)

ThreadSpec == Init /\ [][ThreadNext]_vars

\* C24: of the validate_and_rotate calls that present the same token, at
\* most one succeeds: a token is rotated to at most one successor.
RotatedToOneSuccessor ==
    \A p, q \in Procs :
        (p # q /\ rot[p].pc = "done" /\ rot[q].pc = "done" /\ rot[p].ok /\ rot[q].ok)
            => rot[p].token # rot[q].token

\* ------------------------------------------------------------------------
\* Branches of the working copy: branch, checkout, merge, reset <target>
\* (cli/git.py).  init, clone and checkout write HEAD as refs/heads/<name>;
\* with branch names that are plain words no command writes anything else.
\* ------------------------------------------------------------------------
Branches == {MainBranch, "feature"}
\* what reset is given before the ~: HEAD, a branch name, or any other word
ResetTargets == {"HEAD", "feature", "nosuch"}
MaxTilde == 2
\* the working files and the commit input of the runs with branches
BranchWorkDirs == {work_dir \in WorkDirs : DOMAIN work_dir = {"hello.txt"}}
BranchCommitInputs == {input \in CommitInputs : input.message = "first"}

\* the record of a command: which one, and what it printed
Command(op, out) == [op |-> op, out |-> out]

\* an argument that names no branch is taken as a commit id
AsCommitId(word) == <<word>>

\* reset: "Resolve ref -> commit"
ResolveRef(ref_arg) ==
    IF ref_arg = "HEAD" THEN HeadCommit
    ELSE IF ref_arg \in DOMAIN cRefs
    THEN (IF cRefs[ref_arg] = EmptyRef THEN NoneValue ELSE cRefs[ref_arg])
    ELSE AsCommitId(ref_arg)

\* reset: "Traverse parents for tilde"
RECURSIVE Tilde(_, _)
Tilde(cid, n) == IF n = 0 \/ cid = NoneValue THEN cid ELSE Tilde(TildeOne(cid), n - 1)

\* the path -> blob id map of the tree of commit cid
TreeIndex(cid) ==
    [path \in DOMAIN cTrees[cSnapshots[cid].root_tree].entries |->
        cTrees[cSnapshots[cid].root_tree].entries[path].id]

\* anchor commit -m message
CliCommit(message, timestamp) ==
    /\ cExists
    /\ IF cIndex = <<>>
       THEN /\ cLast' = Command("commit", "nothing to commit")
            /\ UNCHANGED <<clientRefVars, clientObjectVars, cCommits, cLog>>
       ELSE /\ CommitObjects(message, timestamp)
            /\ cLog' = cLog
            /\ cLast' = Command("commit", "committed")
    /\ UNCHANGED <<repoVars, objectVars, outsideClient>>

\* anchor reset [--soft|--hard] <ref_arg>~<n>, the argument not being a file
CliReset(ref_arg, n, mode) ==
    LET cid == Tilde(ResolveRef(ref_arg), n)
        known == cid \in DOMAIN cSnapshots
    IN /\ cExists
       /\ IF cid = NoneValue
          THEN /\ cLast' = Command("reset", "fatal")
               /\ UNCHANGED <<cRefs, cDetached, cIndex, cWork>>
          ELSE /\ AdvanceHead(cid)
               /\ cIndex' = IF mode # "soft" /\ known THEN TreeIndex(cid) ELSE cIndex
               /\ cWork' = IF mode = "hard" /\ known
                           THEN CheckoutFiles(cWork, TreeIndex(cid)) ELSE cWork
               /\ cLast' = Command("reset", "reset")
       /\ UNCHANGED <<cExists, cHead, cRemote, clientObjectVars, cCommits, cLog>>
       /\ UNCHANGED <<repoVars, objectVars, outsideClient>>

\* the file os.path.join(root, ".anchor", "refs", "heads", name) names once
\* the path is resolved: a leading "./" is dropped
RefFile(name) == IF name = "./main" THEN MainBranch ELSE name

\* the path leaves refs/heads and ends at .anchor/HEAD
NamesHeadFile(name) == name = "../../HEAD"

\* anchor branch <name>
CliBranch(name) ==
    /\ cExists
    /\ IF HeadCommit # NoneValue
       THEN /\ IF NamesHeadFile(name)
               THEN cDetached' = HeadCommit /\ cRefs' = cRefs
               ELSE cRefs' = Put(cRefs, RefFile(name), HeadCommit) /\ cDetached' = cDetached
            /\ cLast' = Command("branch", "created")
       ELSE /\ UNCHANGED <<cRefs, cDetached>>
            /\ cLast' = Command("branch", "fatal")
    /\ UNCHANGED <<cExists, cHead, cIndex, cWork, cRemote, clientObjectVars, cCommits, cLog>>
    /\ UNCHANGED <<repoVars, objectVars, outsideClient>>

\* anchor branch -d <name>: the ref file is looked up by its path, the
\* checked-out branch by comparing HEAD's text with "refs/heads/<name>"
CliBranchDelete(name) ==
    LET bp == RefFile(name)
        checked_out == ~Detached /\ cHead = name
    IN /\ cExists
       /\ ~NamesHeadFile(name)
       /\ IF bp \notin DOMAIN cRefs
          THEN /\ cRefs' = cRefs
               /\ cLast' = Command("branch -d", "not found")
          ELSE IF checked_out
          THEN /\ cRefs' = cRefs
               /\ cLast' = Command("branch -d", "error")
          ELSE /\ cRefs' = Remove(cRefs, bp)
               /\ cLast' = Command("branch -d", "deleted")
       /\ UNCHANGED <<cExists, cHead, cDetached, cIndex, cWork, cRemote, clientObjectVars,
                      cCommits, cLog>>
       /\ UNCHANGED <<repoVars, objectVars, outsideClient>>

\* a checkout that also restores the files of the branch
CheckoutRestoring(arg) ==
    /\ cExists
    /\ IF arg \in DOMAIN cRefs
       THEN /\ cHead' = arg
            /\ cDetached' = NoneValue
            /\ cWork' = IF cRefs[arg] \in DOMAIN cSnapshots
                        THEN CheckoutFiles(cWork, TreeIndex(cRefs[arg])) ELSE cWork
            /\ cLast' = Command("checkout", "switched")
       ELSE /\ cHead' = cHead
            /\ cDetached' = cDetached
            /\ cWork' = cWork
            /\ cLast' = Command("checkout", "error")
    /\ UNCHANGED <<cExists, cRefs, cIndex, cRemote, clientObjectVars, cCommits, cLog>>
    /\ UNCHANGED <<repoVars, objectVars, outsideClient>>

\* anchor checkout <arg>; an arg that names no branch is taken as a path,
\* and a path that is not in the index is an error
CliCheckout(arg) ==
    /\ cExists
    /\ IF arg \in DOMAIN cRefs
       THEN /\ cHead' = arg
            /\ cDetached' = NoneValue
            /\ cWork' = cWork
            /\ cLast' = Command("checkout", "switched")
       ELSE /\ cHead' = cHead
            /\ cDetached' = cDetached
            /\ cWork' = IF arg \in DOMAIN cIndex /\ cIndex[arg] \in DOMAIN cBlobs
                        THEN [path \in DOMAIN cWork \cup {arg} |->
                                 IF path = arg THEN cBlobs[cIndex[arg]] ELSE cWork[path]]
                        ELSE cWork
            /\ cLast' = Command("checkout", "error")
    /\ UNCHANGED <<cExists, cRefs, cIndex, cRemote, clientObjectVars, cCommits, cLog>>
    /\ UNCHANGED <<repoVars, objectVars, outsideClient>>

\* merge: the walk from the target along the parents finds the current commit
RECURSIVE Reaches(_, _)
Reaches(walker, current_commit) ==
    IF walker = NoneValue \/ walker = EmptyRef THEN FALSE
    ELSE IF walker = current_commit THEN TRUE
    ELSE IF walker \notin DOMAIN cSnapshots THEN FALSE
    ELSE Reaches(cSnapshots[walker].parent, current_commit)

\* a merge that fast-forwards to any stored commit other than the current one
MergeOutcomeAlwaysForward(branch_name) ==
    IF branch_name \notin DOMAIN cRefs THEN "not something we can merge"
    ELSE IF HeadCommit = cRefs[branch_name] THEN "up to date"
    ELSE IF cRefs[branch_name] \in DOMAIN cSnapshots THEN "fast-forward"
    ELSE "not supported"

\* what merge prints: the branch is missing, is where HEAD is, is ahead of
\* it, or anything else
MergeOutcome(branch_name) ==
    IF branch_name \notin DOMAIN cRefs THEN "not something we can merge"
    ELSE IF HeadCommit = cRefs[branch_name] THEN "up to date"
    ELSE IF Reaches(cRefs[branch_name], HeadCommit) THEN "fast-forward"
    ELSE "not supported"

\* anchor merge <branch_name>
CliMerge(branch_name) ==
    LET out == MergeOutcome(branch_name) IN
    /\ cExists
    /\ cLast' = Command("merge", out)
    /\ IF out = "fast-forward"
       THEN LET target_commit == cRefs[branch_name] IN
            /\ AdvanceHead(target_commit)
            /\ cWork' = CheckoutFiles(cWork, TreeIndex(target_commit))
            /\ cIndex' = TreeIndex(target_commit)
       ELSE UNCHANGED <<cRefs, cDetached, cWork, cIndex>>
    /\ UNCHANGED <<cExists, cHead, cRemote, clientObjectVars, cCommits, cLog>>
    /\ UNCHANGED <<repoVars, objectVars, outsideClient>>

BranchNext ==
    \/ ClientInit
    \/ \E work_dir \in BranchWorkDirs : ClientEdit(work_dir)
    \/ ClientAdd
    \/ \E input \in BranchCommitInputs : CliCommit(input.message, input.timestamp)
    \/ \E mode \in {"soft", "hard"} : CliReset("HEAD", 1, mode)
    \/ CliBranch("feature")
    \/ \E name \in Branches : CliCheckout(name)
    \/ \E name \in Branches : CliMerge(name)

BranchSpec == Init /\ [][BranchNext]_vars

ResetNext ==
    \/ ClientInit
    \/ \E work_dir \in BranchWorkDirs : ClientEdit(work_dir)
    \/ ClientAdd
    \/ \E input \in BranchCommitInputs : CliCommit(input.message, input.timestamp)
    \/ CliBranch("feature")
    \/ \E ref_arg \in ResetTargets, n \in 0..MaxTilde, mode \in ResetModes :
          CliReset(ref_arg, n, mode)

ResetSpec == Init /\ [][ResetNext]_vars

\* the commits reached from cid by one or more parent links
RECURSIVE ParentChain(_)
ParentChain(cid) ==
    IF cid \notin DOMAIN cSnapshots \/ cSnapshots[cid].parent = NoneValue THEN {}
    ELSE {cSnapshots[cid].parent} \cup ParentChain(cSnapshots[cid].parent)

\* merge of the branch name finds the current commit a proper ancestor of
\* the commit of the branch
CanFastForward(name) ==
    /\ name \in DOMAIN cRefs
    /\ HeadCommit # NoneValue
    /\ HeadCommit \in ParentChain(cRefs[name])

MergeRefusedWitness ==
    /\ cLast = Command("merge", "not supported")
    /\ cHead = MainBranch
    /\ "feature" \in DOMAIN cRefs
    /\ HeadCommit \notin ParentChain(cRefs["feature"]) \cup {cRefs["feature"]}
    /\ cRefs["feature"] \notin ParentChain(HeadCommit)

\* C28: checkout of an existing branch changes HEAD to that branch and
\* nothing else: the branch refs, the index, the stored objects and the
\* working files are as before.
CheckoutMovesOnlyHead ==
    [][\A name \in Branches :
          (CliCheckout(name) /\ name \in DOMAIN cRefs) =>
              /\ cHead' = name
              /\ UNCHANGED <<cRefs, cIndex, cWork, cRemote, clientObjectVars>>]_vars

\* HEAD was switched to feature while index and files are not those of the
\* commit of feature
CheckoutMovesOnlyHeadWitness ==
    /\ cLast = Command("checkout", "switched")
    /\ cHead = "feature"
    /\ HeadCommit \in DOMAIN cSnapshots
    /\ cIndex # TreeIndex(HeadCommit)
    /\ \E path \in DOMAIN cWork : cWork[path] # cBlobs[TreeIndex(HeadCommit)[path]]

\* the commit HEAD resolves to: the id its ref holds when a snapshot with
\* that id is stored, none otherwise
ResolvedCommit == IF HeadCommit \in DOMAIN cSnapshots THEN HeadCommit ELSE NoneValue

\* C26: a commit with a non-empty index writes a snapshot whose root_tree is
\* the tree built from the index and whose parent is the commit HEAD resolved
\* to (null when it resolved to no commit), and sets the ref HEAD designates
\* to its id; the other branch refs and HEAD are unchanged; with an empty
\* index commit writes no object and changes no ref.
CommitLinksHead ==
    [][\A input \in BranchCommitInputs :
          CliCommit(input.message, input.timestamp) =>
              IF cIndex # <<>>
              THEN LET id == cRefs'[cHead] IN
                   /\ id \in DOMAIN cSnapshots'
                   /\ cSnapshots'[id].root_tree = StoreObjectId(BuildTreeObject(cIndex))
                   /\ cSnapshots'[id].root_tree \in DOMAIN cTrees'
                   /\ cSnapshots'[id].parent = ResolvedCommit
                   /\ \A b \in DOMAIN cRefs \ {cHead} : cRefs'[b] = cRefs[b]
                   /\ DOMAIN cRefs' = DOMAIN cRefs \cup {cHead}
                   /\ cHead' = cHead
              ELSE UNCHANGED <<cRefs, cHead, clientObjectVars>>]_vars

\* C27: reset sets the ref HEAD designates to the target commit; --soft
\* leaves index and files, the default rewrites the index to the path ->
\* blob id map of the target tree and leaves the files, --hard rewrites the
\* index and restores every path of the target tree from its blob.  When
\* the target resolves to no commit, reset changes no ref, index or file.
ResetModesApply ==
    [][\A ref_arg \in ResetTargets, n \in 0..MaxTilde, mode \in ResetModes :
          CliReset(ref_arg, n, mode) =>
              LET cid == Tilde(ResolveRef(ref_arg), n) IN
              IF cid \in DOMAIN cSnapshots
              THEN /\ cRefs' = Put(cRefs, cHead, cid)
                   /\ mode = "soft" => UNCHANGED <<cIndex, cWork>>
                   /\ mode = "mixed" => cIndex' = TreeIndex(cid) /\ cWork' = cWork
                   /\ mode = "hard" =>
                         /\ cIndex' = TreeIndex(cid)
                         /\ \A path \in DOMAIN cIndex' :
                               cWork'[path] = cBlobs[cIndex'[path]]
              ELSE UNCHANGED <<cRefs, cIndex, cWork>>]_vars

\* ------------------------------------------------------------------------
\* save_snapshot as the readers see it: every open(path, "w") empties the
\* file before the content is written (svcs.py 54-69, 95-101).  Blobs are
\* written only when their file is missing.
\* ------------------------------------------------------------------------
\* _store_tree, open(path, "w"): the tree file is created or emptied
OpenTreeFile(p) ==
    LET r == frame[p].repo
        tree_id == TreeId(frame[p].tree)
    IN /\ pc[p] = "tree"
       /\ trees' = [trees EXCEPT ![r] = Put(trees[r], tree_id, Truncated)]
       /\ frame' = [frame EXCEPT ![p].tree_id = tree_id]
       /\ pc' = [pc EXCEPT ![p] = "tree_open"]
       /\ UNCHANGED <<blobs, snapshots, lockHolder, saves, log, repoVars, outsideStore>>

\* _store_tree, json.dump and the close of the file
DumpTree(p) ==
    LET r == frame[p].repo IN
    /\ pc[p] = "tree_open"
    /\ trees' = [trees EXCEPT ![r] = Put(trees[r], frame[p].tree_id, frame[p].tree)]
    /\ pc' = [pc EXCEPT ![p] = "snapshot"]
    /\ UNCHANGED <<frame, blobs, snapshots, lockHolder, saves, log, repoVars, outsideStore>>

\* save_snapshot line 64, open(..., "w"): the snapshot file is created or emptied
OpenSnapshotFile(p) ==
    LET r == frame[p].repo
        snapshot_id == SnapshotId(frame[p].tree_id, frame[p].parent)
    IN /\ pc[p] = "snapshot"
       /\ snapshots' = [snapshots EXCEPT ![r] = Put(snapshots[r], snapshot_id, Truncated)]
       /\ frame' = [frame EXCEPT ![p].snapshot_id = snapshot_id]
       /\ pc' = [pc EXCEPT ![p] = "snapshot_open"]
       /\ UNCHANGED <<blobs, trees, lockHolder, saves, log, repoVars, outsideStore>>

\* save_snapshot line 65, json.dump and the close of the file
DumpSnapshot(p) ==
    LET r == frame[p].repo IN
    /\ pc[p] = "snapshot_open"
    /\ snapshots' = [snapshots EXCEPT ![r] =
                        Put(snapshots[r], frame[p].snapshot_id, SnapshotRecord(frame[p]))]
    /\ pc' = [pc EXCEPT ![p] = "ref"]
    /\ UNCHANGED <<frame, blobs, trees, lockHolder, saves, log, repoVars, outsideStore>>

\* save_snapshot line 67, open(ref_path, "w"): refs/main is emptied
OpenRefFile(p) ==
    LET r == frame[p].repo IN
    /\ pc[p] = "ref"
    /\ refs[r] # NoFile
    /\ refs' = [refs EXCEPT ![r] = EmptyRef]
    /\ pc' = [pc EXCEPT ![p] = "ref_open"]
    /\ UNCHANGED <<repoDir, meta, favorite, frame, lockHolder, saves, log, objectVars,
                   outsideStore>>

\* save_snapshot lines 68-69: the id is written, the file closed, the id returned
WriteRefFile(p) ==
    LET r == frame[p].repo IN
    /\ pc[p] = "ref_open"
    /\ refs' = [refs EXCEPT ![r] = frame[p].snapshot_id]
    /\ frame' = [frame EXCEPT ![p].ret = "ok"]
    /\ log' = [log EXCEPT ![r] = Append(@,
                 [proc |-> p,
                  work_dir |-> frame[p].work_dir,
                  parent |-> frame[p].parent,
                  id |-> frame[p].snapshot_id,
                  contended |-> \E q \in Procs \ {p} : pc[q] = "lock" /\ frame[q].repo = r])]
    /\ pc' = [pc EXCEPT ![p] = "unlock"]
    /\ UNCHANGED <<repoDir, meta, favorite, lockHolder, saves, objectVars, outsideStore>>

ReaderNext ==
    \/ \E p \in Procs, repo \in RepoNames, message \in Messages, work_dir \in WorkDirs :
          SaveSnapshot(p, repo, message, work_dir)
    \/ \E p \in Procs : LockRepo(p)
    \/ \E p \in Procs : ReadRef(p)
    \/ \E p \in Procs : BuildTree(p)
    \/ \E p \in Procs : OpenTreeFile(p)
    \/ \E p \in Procs : DumpTree(p)
    \/ \E p \in Procs : OpenSnapshotFile(p)
    \/ \E p \in Procs : DumpSnapshot(p)
    \/ \E p \in Procs : OpenRefFile(p)
    \/ \E p \in Procs : WriteRefFile(p)
    \/ \E p \in Procs : UnlockRepo(p)

ReaderSpec == SavesInit /\ [][ReaderNext]_vars

\* the snapshot id, its snapshot, the tree of the snapshot and the blobs of
\* the tree are files written to their end
GraphComplete(r, id) ==
    /\ id \in DOMAIN snapshots[r]
    /\ snapshots[r][id] # Truncated
    /\ snapshots[r][id].root_tree \in DOMAIN trees[r]
    /\ LET tree == trees[r][snapshots[r][id].root_tree] IN
       /\ tree # Truncated
       /\ \A path \in DOMAIN tree.entries : tree.entries[path].id \in DOMAIN blobs[r]

\* C29: at every step of a running save_snapshot, a non-empty snapshot id
\* read from refs/main names a snapshot, a tree and blobs that are present
\* and completely written, also when the save stores a tree whose id exists.
ReadersSeeCompleteGraph ==
    \A r \in RepoNames :
        refs[r] \notin {NoFile, EmptyRef} => GraphComplete(r, refs[r])

\* C30: while save_snapshot updates refs/main a reader sees the previous
\* value or the new id, never an empty one: on a repository with a snapshot
\* get_history never returns an empty list.
RefReplacedAtomically ==
    \A r \in RepoNames :
        log[r] # <<>> => /\ refs[r] # EmptyRef
                         /\ GetHistory(r).raised \/ GetHistory(r).history # <<>>

\* ------------------------------------------------------------------------
\* The history walk (svcs.py 102-119)
\* ------------------------------------------------------------------------
\* the while loop of get_history leaves within fuel iterations: current_id
\* becomes empty or names no snapshot file
RECURSIVE WalkEndsWithin(_, _, _)
WalkEndsWithin(r, current_id, fuel) ==
    IF current_id \in {NoFile, EmptyRef, NoneValue} \/ current_id \notin DOMAIN snapshots[r]
    THEN TRUE
    ELSE IF fuel = 0 THEN FALSE
    ELSE WalkEndsWithin(r, snapshots[r][current_id].parent, fuel - 1)

\* C31: get_history terminates and returns the chain newest first: the
\* first element is the snapshot refs/main names, the parent of each element
\* is the snapshot_id of the next, the last element has no parent or one
\* whose object is missing, and no snapshot appears twice.
HistoryIsChain ==
    \A r \in RepoNames :
        LET result == GetHistory(r)
            history == result.history
            n == Len(history)
        IN /\ WalkEndsWithin(r, refs[r], Cardinality(DOMAIN snapshots[r]))
           /\ ~result.raised
           /\ refs[r] \in DOMAIN snapshots[r] <=> n > 0
           /\ n > 0 => /\ history[1].snapshot_id = refs[r]
                       /\ \/ history[n].parent = NoneValue
                          \/ history[n].parent \notin DOMAIN snapshots[r]
           /\ \A i \in 1..(n - 1) : history[i].parent = history[i + 1].snapshot_id
           /\ \A i, j \in 1..n : i # j => history[i].snapshot_id # history[j].snapshot_id

\* a repository whose history has two snapshots: the one refs/main names,
\* then its parent, which has none
HistoryIsChainWitness ==
    \E r \in RepoNames :
        /\ Len(GetHistory(r).history) = 2
        /\ GetHistory(r).history[1].snapshot_id = refs[r]
        /\ GetHistory(r).history[2].parent = NoneValue

\* ------------------------------------------------------------------------
\* The life of a refresh-token record (token_manager.py)
\* ------------------------------------------------------------------------
FamilyNext ==
    \/ \E u \in Usernames, fp \in {"F1", "F2"} : GenerateRefreshToken(u, fp)
    \/ \E t \in Issued, fp \in {"F1", "F2"} : ValidateAndRotate(t, fp)
    \/ \E t \in Issued : RevokeToken(t)
    \/ RevokeAllUserTokens(AdminUsername)
    \/ LoadTokens
    \/ \E d \in TickSteps : Tick(d)

FamilySpec == Init /\ [][FamilyNext]_vars

\* C32: a refresh-token record is mutated exactly once: the only change a
\* stored record undergoes is the one step from used = false, rotated_to =
\* null to used = true, rotated_to = the hash of the token minted in that
\* step; username, fingerprint and expires_at never change, and a used
\* record can only be deleted.
RecordMutatedOnce ==
    [][\A k \in DOMAIN tokens \cap DOMAIN tokens' :
          \/ tokens'[k] = tokens[k]
          \/ /\ ~tokens[k].used
             /\ tokens[k].rotated_to = NoToken
             /\ tokens'[k].rotated_to \in DOMAIN tokens' \ DOMAIN tokens
             /\ tokens'[k] = [tokens[k] EXCEPT !.used = TRUE,
                                               !.rotated_to = tokens'[k].rotated_to]]_vars

\* a record that was rotated and is still stored, next to its successor,
\* after the clock has moved
RecordMutatedOnceWitness ==
    \E k \in DOMAIN tokens :
        /\ tokens[k].used
        /\ tokens[k].rotated_to \in DOMAIN tokens
        /\ tokens[k].created_at < now
        /\ tokens[k].expires_at < tokens[tokens[k].rotated_to].expires_at

\* the stored records of the family that starts at token root
FamilyOf(root) == {k \in DOMAIN tokens : family[k] = root}

\* C33: the records that descend from one login hold at most one record
\* with used = false, and that record is the end of the chain.
OneLiveTokenPerFamily ==
    \A root \in Issued :
        LET live == {k \in FamilyOf(root) : ~tokens[k].used} IN
        /\ Cardinality(live) <= 1
        /\ \A k \in live : tokens[k].rotated_to = NoToken

\* C33, the step: a successful validate_and_rotate leaves the number of
\* unused records as it was.
RotationKeepsLiveCount ==
    [][(last'.op = "validate" /\ last'.outcome = "rotated" /\ last' # last)
          => Cardinality({k \in DOMAIN tokens' : ~tokens'[k].used})
                = Cardinality({k \in DOMAIN tokens : ~tokens[k].used})]_vars

\* a family rotated twice: two used records and the live one at its end
OneLiveTokenWitness ==
    \E root \in Issued :
        /\ Cardinality(FamilyOf(root)) = 3
        /\ Cardinality({k \in FamilyOf(root) : tokens[k].used}) = 2

\* C33, both parts: one live record per family in every state, and the
\* count of unused records kept by every successful rotation.
OneLiveToken == []OneLiveTokenPerFamily /\ RotationKeepsLiveCount

\* ------------------------------------------------------------------------
\* Where the step-up claim comes from (routers/auth.py, dependencies.py)
\* ------------------------------------------------------------------------
ElevationTickSteps == {StepUpWindow - 1}

ElevationNext ==
    \/ \E req \in GateLoginRequests : Login(AdminUsername, AdminPassword, req)
    \/ \E req \in GateLoginRequests : Login2fa(AdminUsername, CurrentCode, req)
    \/ \E tok \in Bearers, req \in GateLoginRequests : Enable2fa(tok, req, TRUE)
    \/ \E t \in Issued, req \in GateLoginRequests : Refresh(t, req)
    \/ \E tok \in Bearers, req \in GateLoginRequests, password \in Passwords :
          StepUp(tok, req, [password |-> password, code |-> NoValue])
    \/ \E tok \in Bearers, req \in GateLoginRequests, key \in KeyStrings : CreateKey(tok, req, key)
    \/ \E d \in ElevationTickSteps : AccessTick(d)

ElevationSpec == Init /\ [][ElevationNext]_vars

\* the access token p was minted in this step by a step-up that verified the
\* admin's password
MintedByStepUp(p) ==
    /\ resp'.op = "step_up"
    /\ resp'.status = 200
    /\ VerifyPassword(resp'.data.password, GetAdminPasswordHash)
    /\ p.sub = AdminUsername
    /\ p.step_up_at = now

SecondFactorAfterPassword ==
    [][\A u \in Usernames :
          (resp' # resp /\ resp'.op = "login_2fa" /\ IssuedTo(u)) => u \in attempt]_vars

\* ------------------------------------------------------------------------
\* What a guest can change (routers/repo.py, authorization.py)
\* ------------------------------------------------------------------------
RepoResource(name) == [given |-> TRUE, type |-> "repo", id |-> name]

\* Depends(check_repo_access), then require_permission(user, WRITE_REPO,
\* {"type": "repo", "id": name}), then the call of save_snapshot on work_dir
WriteRoute(op, tok, req, p, name, message, work_dir) ==
    LET access == CheckRepoAccess(tok, req, name)
        perm == RequirePermissionOn(tok.payload, "write:repo", RepoResource(name))
        res == IF ~access.ok THEN access ELSE perm
    IN /\ resp' = Response(op, res, tok, req, [NoData EXCEPT !.name = name])
       /\ IF res.ok
          THEN EnterSaveSnapshot(p, name, message, work_dir)
          ELSE UNCHANGED <<pc, frame, saves>>
       /\ UNCHANGED <<lockHolder, log, held, writes, users, clockVars, tokenVars, repoVars,
                      objectVars, clientVars, challenges, authz, raceVars>>

\* POST /repos/{name}/save: the snapshot of a fresh, empty temporary directory
SaveRepoSnapshot(tok, req, p, name, message) ==
    WriteRoute("save", tok, req, p, name, message, <<>>)

\* POST /repos/{name}/upload: the snapshot of the unpacked archive
UploadRepoSnapshot(tok, req, p, name, message, work_dir) ==
    WriteRoute("upload", tok, req, p, name, message, work_dir)

GuestNext ==
    \/ \E u \in Usernames, req \in GateLoginRequests, su \in BOOLEAN : CreateAccessToken(u, req, su)
    \/ \E tok \in Bearers, req \in GateLoginRequests, name \in GateRepoNames :
          CreateRepo(tok, req, name)
    \/ \E tok \in Bearers, req \in GateLoginRequests, name \in GateRepoNames,
          is_favorite \in BOOLEAN : ToggleRepositoryFavorite(tok, req, name, is_favorite)
    \/ \E tok \in Bearers, req \in GateLoginRequests, p \in Procs, name \in GateRepoNames,
          message \in Messages : SaveRepoSnapshot(tok, req, p, name, message)
    \/ \E tok \in Bearers, req \in GateLoginRequests, p \in Procs, name \in GateRepoNames,
          message \in Messages, work_dir \in FailureWorkDirs :
             UploadRepoSnapshot(tok, req, p, name, message, work_dir)
    \/ \E p \in Procs : LockRepo(p)
    \/ \E p \in Procs : ReadRef(p)
    \/ \E p \in Procs : BuildTree(p)
    \/ \E p \in Procs : StoreTree(p)
    \/ \E p \in Procs : WriteSnapshot(p)
    \/ \E p \in Procs : WriteRef(p)
    \/ \E p \in Procs : UnlockRepo(p)

GuestSpec == Init /\ [][GuestNext]_vars

\* the step answers a request to one of the changing /repos endpoints that
\* carries a valid token of a user other than the admin
GuestRequest ==
    /\ resp' # resp
    /\ resp'.op \in {"save", "upload", "create_repo", "toggle_favorite"}
    /\ Authenticated(resp')
    /\ resp'.tok.payload.sub # AdminUsername

\* C36: no request authenticated as a non-admin user changes a repository:
\* save, upload, create and favorite requests of the guest leave refs/main,
\* the objects and meta.json of every repository as they were and start no
\* save.
GuestReadOnly ==
    [][GuestRequest => UNCHANGED <<repoVars, objectVars, pc>>]_vars

\* ------------------------------------------------------------------------
\* Release of the repository lock (svcs.py 11-19, 37-72)
\* ------------------------------------------------------------------------
\* a call that has the lock goes on to its next statement
Proceed(p) ==
    \/ ReadRef(p) \/ BuildTree(p) \/ StoreTree(p)
    \/ WriteSnapshot(p) \/ WriteRef(p) \/ UnlockRepo(p)

\* calls of save_snapshot on one repository, each of which may raise at any
\* statement inside the try block
LockNext ==
    \/ \E p \in Procs, message \in Messages, work_dir \in FailureWorkDirs :
          SaveSnapshot(p, "r1", message, work_dir)
    \/ \E p \in Procs : LockRepo(p)
    \/ \E p \in Procs : Proceed(p)
    \/ \E p \in Procs, truncated \in BOOLEAN : Raise(p, {}, truncated)

\* fair scheduling: every started call keeps running, and a call waiting in
\* flock gets the lock if the lock is free again and again
FairSavesSpec ==
    /\ SavesInit /\ [][LockNext]_vars
    /\ \A p \in Procs : WF_vars(Proceed(p)) /\ SF_vars(LockRepo(p))

\* the lock of a repository is held by a call that is inside save_snapshot
\* on that repository, and by no call that has returned or raised
LockHeldOnlyBySaver ==
    /\ \A r \in RepoNames :
          lockHolder[r] # NoProc =>
             HoldsLock(lockHolder[r]) /\ frame[lockHolder[r]].repo = r
    /\ \A p \in Procs : HoldsLock(p) => lockHolder[frame[p].repo] = p

\* C37: save_snapshot releases the lock on every exit path, so the lock is
\* held only while a save_snapshot call runs; under fair scheduling every
\* call that waits for the lock gets it, and every call returns or raises
\* with the lock released.
LockAlwaysReleased ==
    /\ []LockHeldOnlyBySaver
    /\ \A p \in Procs : (pc[p] = "lock") ~> HoldsLock(p)
    /\ \A p \in Procs : (pc[p] # "idle") ~> (Returned(p) /\ \A r \in RepoNames : lockHolder[r] # p)

\* one call has raised and another, which had waited for the lock, has
\* returned, and the lock is free
LockAlwaysReleasedWitness ==
    \E p, q \in Procs, r \in RepoNames :
        /\ Returned(p) /\ frame[p].ret = "error" /\ frame[p].repo = r
        /\ Returned(q) /\ frame[q].ret = "ok" /\ frame[q].repo = r
        /\ lockHolder[r] = NoProc
        /\ \E i \in DOMAIN log[r] : log[r][i].contended

\* ------------------------------------------------------------------------
\* Branch names that are paths (cli/git.py 961-1010)
\* ------------------------------------------------------------------------
\* what branch is given as a name: a word, or a relative path
BranchArgs == {"feature", "../../HEAD"}
DeleteArgs == {MainBranch, "feature", "./main", "nosuch"}

NameNext ==
    \/ ClientInit
    \/ \E work_dir \in BranchWorkDirs : ClientEdit(work_dir)
    \/ ClientAdd
    \/ \E input \in BranchCommitInputs : CliCommit(input.message, input.timestamp)
    \/ \E mode \in {"soft", "hard"} : CliReset("HEAD", 1, mode)
    \/ \E name \in BranchArgs : CliBranch(name)
    \/ \E name \in DeleteArgs : CliBranchDelete(name)
    \/ \E name \in Branches : CliCheckout(name)
    \/ \E name \in Branches : CliMerge(name)

NameSpec == Init /\ [][NameNext]_vars

\* C38: after init, whatever add, commit, branch, checkout, merge and reset
\* commands follow, HEAD holds a symbolic ref refs/heads/<name> and never a
\* snapshot id, so commit, reset and merge never take their detached-HEAD
\* branch.
HeadStaysSymbolic == cExists => ~Detached /\ cHead # NoHead

\* the branch ref HEAD names is there before the step and gone after it
CheckedOutRefDeleted ==
    /\ ~Detached
    /\ cHead \in DOMAIN cRefs
    /\ cHead \notin DOMAIN cRefs'

\* C39: branch -d <name> refuses and changes nothing when HEAD is
\* refs/heads/<name>; for another existing branch it removes that branch's
\* ref file only and leaves HEAD, the other refs, the index and the objects
\* as they were; no step deletes the branch ref that HEAD designates.
DeleteSparesCheckedOut ==
    [][/\ \A name \in DeleteArgs :
             CliBranchDelete(name) =>
                /\ (~Detached /\ cHead = name) => UNCHANGED <<clientRefVars, clientObjectVars>>
                /\ DOMAIN cRefs \ {RefFile(name)} \subseteq DOMAIN cRefs'
                /\ \A b \in DOMAIN cRefs' : b \in DOMAIN cRefs /\ cRefs'[b] = cRefs[b]
                /\ UNCHANGED <<cHead, cDetached, cIndex, cWork, clientObjectVars>>
       /\ ~CheckedOutRefDeleted]_vars

====
